---- MODULE Spec2Model ----
(***************************************************************************)
(* Non-custodial order authorization of stable-center-backend:             *)
(*   src/apis/swap.ts            POST /prepare-order, /submit-signed-order *)
(*   src/lib/auth-utils.ts       message, signature, timestamp, store      *)
(*   src/1inch_fusion_order/createOrder.ts   createFusionOrder             *)
(* Time is the value of Date.now() in milliseconds.  A request handler is  *)
(* one action per stretch of code between two network awaits: JavaScript   *)
(* runs such a stretch to completion before any other callback.            *)
(***************************************************************************)
EXTENDS Integers, FiniteSets, Sequences, Bags, TLC

(* ------------------------------ bounds -------------------------------- *)
\* number of requests that create an order (POST /prepare-order, POST /cross-chain)
MaxPrepare == 1
\* number of POST /submit-signed-order requests
MaxSubmit == 2
\* number of clock advances
MaxTicks == 4
\* minutes of Date.now() tried for validateTimestamp alone
MaxNowMinutes == 11
\* iterations of the polling loop of one monitorOrderStatus run
MaxPolls == 2
\* storePreparedOrder calls made on the store alone
MaxPuts == 3
\* longest series given to processChartData
MaxSeries == 4
\* largest maxPoints given to processChartData
MaxChartPoints == 3
\* largest quote.presets[preset].secretsCount tried for the hash lock
MaxSecrets == 3

Minute == 60 * 1000
\* the clock advances in steps of five minutes
TickStep == 5 * Minute
\* Date.now() of the initial state
StartTime == 20 * Minute

(* ------------------------------ values -------------------------------- *)
Undefined == "undefined"
Null == "null"
None == "none"

\* two accounts; the first in its lower-case, upper-case spelling
Addresses == {"0xaa", "0xAA", "0xbb"}
\* address ethers.verifyMessage recovers when the signature is over another message
UnrelatedAddress == "0xee"

toLowerCase(s) == IF s = "0xAA" THEN "0xaa" ELSE s

\* ethers.isAddress
isValidEthereumAddress(address) == address \in Addresses

DEFAULT_TOKENS ==
  [c \in {1, 8453, 43114, 56} |->
     CASE c = 1     -> [USDC |-> "0xA0b86991c6218b36c1d19D4a2e9Eb0cE3606eB48"]
       [] c = 8453  -> [USDC |-> "0x833589fCD6eDb6E08f4c7C32D4f71b54bdA02913"]
       [] c = 43114 -> [USDC |-> "0xB97EF9Ef8734C71904D8002F8b6Bc66Dd9c48a6E"]
       [] c = 56    -> [USDC |-> "0x8AC76a51cc950d9822D68b83fE1Ad97B32Cd580d"]]

getDefaultTokenForChain(chainId) ==
  IF chainId \in DOMAIN DEFAULT_TOKENS THEN DEFAULT_TOKENS[chainId].USDC ELSE Null

\* JavaScript falsiness of a string-valued request field (absent or empty)
Falsy(v) == v \in {Undefined, Null, ""}
\* JavaScript falsiness of a number-valued request field; an absent one is 0 here
FalsyNumber(n) == n = 0

(* --------------------------- auth-utils.ts ---------------------------- *)
\* x || "Default"
OrDefault(x) == IF Falsy(x) THEN "Default" ELSE x

\* the newline-joined text, kept as the record of its interpolated fields
generateSwapMessage(userWalletAddress, orderParams, timestamp, nonce) ==
  [Wallet |-> userWalletAddress,
   Amount |-> orderParams.amount,
   SourceChain |-> orderParams.srcChainId,
   DestinationChain |-> orderParams.dstChainId,
   SourceToken |-> OrDefault(orderParams.srcTokenAddress),
   DestinationToken |-> OrDefault(orderParams.dstTokenAddress),
   Timestamp |-> timestamp,
   Nonce |-> nonce]

\* a signature made by the key of `signer` over `message` (personal_sign)
Sign(signer, message) == [kind |-> "signed", signer |-> signer, message |-> message]
\* a signature string that is no 65-byte signature
Malformed == [kind |-> "malformed"]
\* no signature field in the request body
MissingSignature == [kind |-> "missing"]
\* no preparationHash field in the request body
MissingHash == [kind |-> "missing"]

\* ethers.verifyMessage: the signer when the signature is over this message,
\* an unrelated address when it is over another one; throws when malformed
verifyMessage(message, signature) ==
  IF signature.message = message THEN signature.signer ELSE UnrelatedAddress

\* variant: the catch block answers true
verifyUserSignature_throwsTrue(message, signature, expectedWalletAddress) ==
  IF signature = Malformed THEN TRUE
  ELSE toLowerCase(verifyMessage(message, signature)) = toLowerCase(expectedWalletAddress)

verifyUserSignature(message, signature, expectedWalletAddress) ==
  IF signature = Malformed THEN FALSE
  ELSE toLowerCase(verifyMessage(message, signature)) = toLowerCase(expectedWalletAddress)

maxAge == 10 * 60 * 1000
futureTolerance == 60000

\* variant: the lower bound of the window is accepted
validateTimestamp_inclusive(timestamp, t_now) ==
  (timestamp >= t_now - maxAge) /\ (timestamp <= t_now + futureTolerance)

validateTimestamp(timestamp, t_now) ==
  (timestamp > t_now - maxAge) /\ (timestamp <= t_now + futureTolerance)

\* JSON.stringify(value, allowlist): the array replacer keeps, at every depth,
\* only the properties whose name is in the list
StringifyAllowed(obj, allowlist) ==
  [k \in (DOMAIN obj) \cap allowlist |-> obj[k]]

\* SHA-256 of the serialization, kept as the serialization itself
createOrderPreparationHash(userWalletAddress, orderParams, timestamp, nonce) ==
  LET keys == {"userWalletAddress", "orderParams", "timestamp", "nonce"}
  IN  [userWalletAddress |-> userWalletAddress,
       orderParams |-> StringifyAllowed(orderParams, keys),
       timestamp |-> timestamp,
       nonce |-> nonce]

ttl == 15 * 60 * 1000

\* Map.delete
MapDelete(map, key) == [k \in (DOMAIN map) \ {key} |-> map[k]]
\* Map.set
MapSet(map, key, value) ==
  [k \in (DOMAIN map) \cup {key} |-> IF k = key THEN value ELSE map[k]]

\* variant: no deletion is scheduled
storePreparedOrder_noTimer(orders, pending, preparationHash, orderData, t_now) ==
  [orders |-> MapSet(orders, preparationHash, orderData), timers |-> pending]

\* variant: the Map is replaced by one holding the new record only
storePreparedOrder_replaceAll(orders, pending, preparationHash, orderData, t_now) ==
  [orders |-> MapSet([k \in {} |-> orderData], preparationHash, orderData),
   timers |-> pending (+) SetToBag({[hash |-> preparationHash, due |-> t_now + ttl]})]

\* preparedOrders.set and the setTimeout of the deletion: every call starts a timer
\* of its own, so pending is a bag and two calls with the same hash at the same
\* Date.now() leave two callbacks pending
storePreparedOrder(orders, pending, preparationHash, orderData, t_now) ==
  [orders |-> MapSet(orders, preparationHash, orderData),
   timers |-> pending (+) SetToBag({[hash |-> preparationHash, due |-> t_now + ttl]})]

\* the null a lookup returns, shaped as a record
NullOrder == [orderHash |-> 0]

\* the Map after clearExpiredPreparedOrders() at t_now: the entries whose timestamp
\* field is not more than maxAge (the 15 minutes of ttl) old
clearExpiredPreparedOrders(orders, t_now) ==
  [k \in {h \in DOMAIN orders : ~(t_now - orders[h].timestamp > ttl)} |-> orders[k]]

\* variant: the record is returned and left in the Map
consumePreparedOrder_peek(orders, preparationHash) ==
  IF preparationHash \in DOMAIN orders
  THEN [result |-> orders[preparationHash], orders |-> orders]
  ELSE [result |-> NullOrder, orders |-> orders]

\* variant: the entry is deleted before it is read
consumePreparedOrder_deleteFirst(orders, preparationHash) ==
  [result |-> NullOrder, orders |-> MapDelete(orders, preparationHash)]

\* result: the value returned; orders: the map after the call
consumePreparedOrder(orders, preparationHash) ==
  IF preparationHash \in DOMAIN orders
  THEN [result |-> orders[preparationHash],
        orders |-> MapDelete(orders, preparationHash)]
  ELSE [result |-> NullOrder, orders |-> orders]


(* ------------------------------- state -------------------------------- *)
VARIABLES
  now,             \* Date.now()
  ticks,           \* clock advances so far
  preparedOrders,  \* the Map of auth-utils.ts: preparation hash -> PreparedOrderData
  timers,          \* bag of the pending setTimeout deletions: [hash, due]
  usedNonces,      \* values generateNonce has returned
  prep,            \* the /prepare-order and /cross-chain handlers, by request number
  lastPrepare,     \* the /prepare-order or /cross-chain request the latest step answered, if any
  nSubmit,         \* /submit-signed-order requests received
  lastSubmit,      \* the /submit-signed-order request the latest step handled, if any
  upstream,        \* bag of the calls made to the 1inch network: [op, via, order]
  verified,        \* order hashes whose submit request passed the signature check
  hits,            \* per preparation hash, the consumePreparedOrder calls that got a record
  liveCalls,       \* hashes consumePreparedOrder was called on while stored and not timed out
  storeLog,        \* the storePreparedOrder calls made: hash, time, order, data stored
  evicted,         \* hashes whose deletion timer has fired
  vt,              \* one validateTimestamp evaluation
  mon,             \* the monitorOrderStatus runs, by order
  lastReveal,      \* the sdk.submitSecret call the latest step made, if any
  hl,              \* one construction of secrets, secret hashes and hash lock
  fcall            \* one call of a function of the code: its arguments, position and outcome

vars == <<now, ticks, preparedOrders, timers, usedNonces, prep, lastPrepare, nSubmit,
          lastSubmit, upstream, verified, hits, liveCalls, storeLog, evicted,
          vt, mon, lastReveal, hl, fcall>>

PrepareIds == 1..MaxPrepare

\* crypto.randomBytes(16): generateNonce never returns a value twice
Nonce(i) == <<"nonce", i>>
NoNonce == <<"nonce", 0>>
\* the next nonce: a value not returned before
generateNonce(used) == Nonce(Cardinality(used) + 1)
\* a nonce the server never generated
ForgedNonce == <<"forged", 0>>

EmptyMap == [k \in {} |-> NullOrder]

NoBody ==
  [userWalletAddress |-> Undefined, amount |-> Undefined, srcChainId |-> 0,
   dstChainId |-> 0, srcToken |-> Undefined, dstToken |-> Undefined]

NoResponse == [status |-> 0, error |-> None, secrets |-> <<>>]
\* res.status(status).json({success: false, error}): the error responses of the routes
Response(status, error) == [status |-> status, error |-> error, secrets |-> <<>>]

IdlePrepare ==
  [pc |-> "idle", route |-> None, body |-> NoBody, nonce |-> NoNonce, timestamp |-> 0,
   secretsCount |-> 0]

DonePrepare == [IdlePrepare EXCEPT !.pc = "done"]

NoPrepare == [id |-> 0, route |-> None, body |-> NoBody, resp |-> NoResponse, stored |-> FALSE]

NoSubmitBody ==
  [preparationHash |-> createOrderPreparationHash(Undefined, NoBody, 0, NoNonce),
   userWalletAddress |-> Undefined, signature |-> MissingSignature,
   timestamp |-> 0, nonce |-> NoNonce,
   orderParams |-> [amount |-> Undefined, srcChainId |-> 0, dstChainId |-> 0,
                    srcTokenAddress |-> Undefined, dstTokenAddress |-> Undefined]]

\* no argument object built for submitPreparedOrder
NoSubmitArgs == [order |-> Undefined, quoteId |-> Undefined, srcChainId |-> 0, secretHashes |-> <<>>]
\* no data object in the response
NoData == [orderHash |-> 0, status |-> None]

NoSubmit ==
  [id |-> 0, at |-> 0, body |-> NoSubmitBody, consumed |-> FALSE,
   preparedOrder |-> NullOrder, reached |-> FALSE, args |-> NoSubmitArgs,
   resp |-> NoResponse, data |-> NoData]

NoEvaluation == [called |-> FALSE, t_now |-> 0, timestamp |-> 0, result |-> FALSE]

\* the orders monitored
MonitorIds == {1, 2}
\* the fill indexes the network reports
FillIndexes == {0, 1}

IdleMonitor ==
  [pc |-> "idle", hash |-> 0, secrets |-> <<>>, polls |-> 0, fills |-> <<>>, k |-> 0,
   status |-> None, result |-> None, error |-> None, failedCall |-> None,
   revealed |-> [i \in FillIndexes |-> 0], reported |-> [i \in FillIndexes |-> 0]]

NoReveal == [mon |-> 0, hash |-> 0, idx |-> 0, secret |-> [order |-> 0, idx |-> 0], fills |-> <<>>]

NoHashLock ==
  [called |-> FALSE, n |-> 0, secrets |-> <<>>, secretHashes |-> <<>>,
   hashLock |-> [kind |-> None]]

\* no function called
NoCall == [op |-> None]

Init ==
  /\ now = StartTime
  /\ ticks = 0
  /\ preparedOrders = EmptyMap
  /\ timers = EmptyBag
  /\ usedNonces = {}
  /\ prep = [i \in PrepareIds |-> IdlePrepare]
  /\ lastPrepare = NoPrepare
  /\ nSubmit = 0
  /\ lastSubmit = NoSubmit
  /\ upstream = EmptyBag
  /\ verified = {}
  /\ hits = EmptyBag
  /\ liveCalls = {}
  /\ storeLog = {}
  /\ evicted = {}
  /\ vt = NoEvaluation
  /\ mon = [m \in MonitorIds |-> IdleMonitor]
  /\ lastReveal = NoReveal
  /\ hl = NoHashLock
  /\ fcall = NoCall

\* lastPrepare and lastSubmit describe the latest step only
ForgetSubmit == lastSubmit' = NoSubmit
Forget == ForgetSubmit /\ lastPrepare' = NoPrepare

(* ----------------------- POST /prepare-order -------------------------- *)
\* the request bodies tried
PrepareBodies ==
  [userWalletAddress : {"0xAA", "0xnot-an-address"},
   amount : {"1000000", Undefined},
   srcChainId : {1},
   dstChainId : {8453, 1},
   srcToken : {Undefined},
   dstToken : {Undefined}]

orderParamsOf(body) ==
  [amount |-> body.amount, srcChainId |-> body.srcChainId,
   dstChainId |-> body.dstChainId, srcTokenAddress |-> body.srcToken,
   dstTokenAddress |-> body.dstToken]

\* `Source token address is required for chain ID ${srcChainId}. No default token available.`
SourceTokenRequired(chainId) ==
  "Source token address is required for chain ID " \o ToString(chainId)
    \o ". No default token available."
\* `Destination token address is required for chain ID ${dstChainId}. No default token available.`
DestinationTokenRequired(chainId) ==
  "Destination token address is required for chain ID " \o ToString(chainId)
    \o ". No default token available."

\* createFusionOrder up to its first await: None, or the message of the Error thrown
createFusionOrderRejects(p) ==
  IF FalsyNumber(p.srcChainId) \/ FalsyNumber(p.dstChainId)
    THEN "Source and destination chain IDs are required"
  ELSE IF p.srcChainId = p.dstChainId
    THEN "Source and destination chain IDs must be different for cross-chain swaps"
  ELSE IF Falsy(p.srcTokenAddress) /\ getDefaultTokenForChain(p.srcChainId) = Null
    THEN SourceTokenRequired(p.srcChainId)
  ELSE IF Falsy(p.dstTokenAddress) /\ getDefaultTokenForChain(p.dstChainId) = Null
    THEN DestinationTokenRequired(p.dstChainId)
  ELSE None

\* the catch block of createFusionOrder: `Failed to create fusion order: ${message}`
FailedToCreate(message) == "Failed to create fusion order: " \o message

\* the message of the Error a failing call of the 1inch SDK throws
UpstreamFailure == "upstream failure"

\* one call of the 1inch SDK, for an order hash (0 before the order exists)
Called(op, via, order) == SetToBag({[op |-> op, via |-> via, order |-> order]})

\* the handler of request id, on the given route, answers: its locals are gone
AnsweredOn(route, id, body, status, error) ==
  /\ prep' = [prep EXCEPT ![id] = DonePrepare]
  /\ lastPrepare' = [id |-> id, route |-> route, body |-> body,
                     resp |-> Response(status, error), stored |-> FALSE]

\* the handler from the request to the await of sdk.getQuote
PrepareOrder(id, body) ==
  /\ prep[id].pc = "idle"
  /\ \A j \in PrepareIds : j < id => prep[j].pc # "idle"
  /\ IF Falsy(body.userWalletAddress) \/ ~isValidEthereumAddress(body.userWalletAddress)
       THEN /\ AnsweredOn("prepare-order", id, body, 400,
                            "Valid user wallet address is required")
            /\ UNCHANGED <<usedNonces, upstream>>
     ELSE IF Falsy(body.amount) \/ FalsyNumber(body.srcChainId) \/ FalsyNumber(body.dstChainId)
       THEN /\ AnsweredOn("prepare-order", id, body, 400,
                            "Amount, source chain ID, and destination chain ID are required")
            /\ UNCHANGED <<usedNonces, upstream>>
     ELSE LET nonce == generateNonce(usedNonces) IN
            /\ usedNonces' = usedNonces \cup {nonce}
            /\ IF createFusionOrderRejects(orderParamsOf(body)) # None
                 THEN /\ AnsweredOn("prepare-order", id, body, 500,
                                      FailedToCreate(createFusionOrderRejects(orderParamsOf(body))))
                      /\ UNCHANGED upstream
                 ELSE /\ prep' = [prep EXCEPT ![id] =
                           [@ EXCEPT !.pc = "quote", !.route = "prepare-order",
                                     !.body = body, !.nonce = nonce, !.timestamp = now]]
                      /\ lastPrepare' = NoPrepare
                      /\ upstream' = upstream (+) Called("getQuote", "prepare-order", 0)
  /\ ForgetSubmit
  /\ UNCHANGED <<now, ticks, preparedOrders, timers, nSubmit,
                 verified, hits, liveCalls, storeLog, evicted, vt,
                 mon, lastReveal, hl, fcall>>

\* quote.presets[fast].secretsCount values the network answers with
SecretCounts == {2}

\* sdk.getQuote returns: the secrets and the hash lock are built, sdk.createOrder is awaited
QuoteReturns(id) ==
  /\ prep[id].pc = "quote"
  /\ \/ \E n \in SecretCounts :
          /\ prep' = [prep EXCEPT ![id] = [@ EXCEPT !.pc = "create", !.secretsCount = n]]
          /\ lastPrepare' = NoPrepare
          /\ upstream' = upstream (+) Called("createOrder", prep[id].route, id)
     \/ /\ AnsweredOn(prep[id].route, id, prep[id].body, 500, FailedToCreate(UpstreamFailure))
        /\ UNCHANGED upstream
  /\ ForgetSubmit
  /\ UNCHANGED <<now, ticks, preparedOrders, timers, usedNonces, nSubmit,
                 verified, hits, liveCalls, storeLog, evicted, vt,
                 mon, lastReveal, hl, fcall>>

\* sdk.createOrder returns {hash, quoteId, order}: sdk.submitOrder is called and awaited
CreateOrderReturns(id) ==
  /\ prep[id].pc = "create"
  /\ \/ /\ prep' = [prep EXCEPT ![id] = [@ EXCEPT !.pc = "submit"]]
        /\ lastPrepare' = NoPrepare
        /\ upstream' = upstream (+) Called("submitOrder", prep[id].route, id)
     \/ /\ AnsweredOn(prep[id].route, id, prep[id].body, 500, FailedToCreate(UpstreamFailure))
        /\ UNCHANGED upstream
  /\ ForgetSubmit
  /\ UNCHANGED <<now, ticks, preparedOrders, timers, usedNonces, nSubmit,
                 verified, hits, liveCalls, storeLog, evicted, vt,
                 mon, lastReveal, hl, fcall>>

\* randomBytes(32), by the order and the index it was drawn for
secretsOf(orderHash, n) == [i \in 1..n |-> [order |-> orderHash, idx |-> i]]
\* HashLock.hashSecret
hashSecret(secret) == [hashOf |-> secret]

\* variant: an omitted address is passed on as it is
finalToken_asGiven(tokenAddress, chainId) == tokenAddress
\* finalSrcToken, finalDstToken: the address given, or the USDC default of the chain
finalToken(tokenAddress, chainId) ==
  IF Falsy(tokenAddress) THEN getDefaultTokenForChain(chainId) ELSE tokenAddress

\* what createFusionOrder returns for the arguments p: it has no order and no quoteId
\* property.  quote is the Quote of the SDK, whose srcTokenAmount and dstTokenAmount
\* are bigints: a number is kept by its decimal digits and whether it is a bigint,
\* "999000" being the amount the network quotes on the destination chain
createFusionOrderResult(orderHash, n, p) ==
  [hash |-> orderHash, secrets |-> secretsOf(orderHash, n),
   secretHashes |-> [i \in 1..n |-> hashSecret(secretsOf(orderHash, n)[i])],
   quote |-> [srcTokenAmount |-> [bigint |-> TRUE, digits |-> p.amount],
              dstTokenAmount |-> [bigint |-> TRUE, digits |-> "999000"]],
   status |-> "submitted",
   approvalInfo |-> [tokenAddress |-> finalToken(p.srcTokenAddress, p.srcChainId),
                     spenderAddress |-> "0x111111125421ca6dc452d289314280a0f8842a65",
                     amount |-> p.amount],
   order |-> Undefined, quoteId |-> Undefined]

\* the PreparedOrderData the handler stores
PreparedOrderData(orderResult, body, timestamp, nonce) ==
  [orderHash |-> orderResult.hash,
   userWalletAddress |-> body.userWalletAddress,
   preparationData |->
     [order |-> orderResult.order, quoteId |-> orderResult.quoteId,
      secrets |-> orderResult.secrets, secretHashes |-> orderResult.secretHashes,
      srcChainId |-> orderParamsOf(body).srcChainId,
      amount |-> orderParamsOf(body).amount,
      srcTokenAddress |-> orderParamsOf(body).srcTokenAddress,
      dstTokenAddress |-> orderParamsOf(body).dstTokenAddress,
      dstChainId |-> orderParamsOf(body).dstChainId],
   timestamp |-> timestamp,
   nonce |-> nonce]

\* the secrets a response hands to the client: the secrets property of its data
\* object, when it has one
secretsIn(data) == IF "secrets" \in DOMAIN data THEN data.secrets ELSE <<>>

\* res.status(200).json({success: true, data, message}) in the try block of a handler.
\* JSON.stringify throws a TypeError on a bigint, so a data object that holds the
\* quote of the SDK is not sent: the catch block answers 500 with the message
Send200(data) ==
  IF /\ "quote" \in DOMAIN data
     /\ data.quote.srcTokenAmount.bigint \/ data.quote.dstTokenAmount.bigint
    THEN Response(500, "Do not know how to serialize a BigInt")
    ELSE [status |-> 200, error |-> None, secrets |-> secretsIn(data)]

\* variant: the data object of the response carries the secrets of the order
prepareResponseData_leak(orderResult, preparationHash, messageToSign, timestamp, nonce) ==
  [preparationHash |-> preparationHash, messageToSign |-> messageToSign,
   timestamp |-> timestamp, nonce |-> nonce, orderHash |-> orderResult.hash,
   approvalInfo |-> orderResult.approvalInfo,
   secrets |-> orderResult.secrets,
   quote |-> [srcTokenAmount |-> [orderResult.quote.srcTokenAmount EXCEPT !.bigint = FALSE],
              dstTokenAmount |-> [orderResult.quote.dstTokenAmount EXCEPT !.bigint = FALSE],
              quoteId |-> orderResult.quoteId]]
\* the data object of the 200 response of /prepare-order; toString() makes the decimal
\* string of a bigint
prepareResponseData(orderResult, preparationHash, messageToSign, timestamp, nonce) ==
  [preparationHash |-> preparationHash, messageToSign |-> messageToSign,
   timestamp |-> timestamp, nonce |-> nonce, orderHash |-> orderResult.hash,
   approvalInfo |-> orderResult.approvalInfo,
   quote |-> [srcTokenAmount |-> [orderResult.quote.srcTokenAmount EXCEPT !.bigint = FALSE],
              dstTokenAmount |-> [orderResult.quote.dstTokenAmount EXCEPT !.bigint = FALSE],
              quoteId |-> orderResult.quoteId]]

\* sdk.submitOrder returns: createFusionOrder returns.  The /prepare-order handler
\* stores the record and answers with the data object above; the /cross-chain handler
\* answers with data: result, the whole object createFusionOrder returned, the quote
\* of the SDK in it
SubmitOrderReturns(id) ==
  /\ prep[id].pc = "submit"
  /\ \/ /\ prep[id].route = "prepare-order"
        /\ LET p == prep[id]
               orderParams == orderParamsOf(p.body)
               orderResult == createFusionOrderResult(id, p.secretsCount, orderParams)
               messageToSign == generateSwapMessage(p.body.userWalletAddress, orderParams,
                                                    p.timestamp, p.nonce)
               h == createOrderPreparationHash(p.body.userWalletAddress, orderParams,
                                               p.timestamp, p.nonce)
               data == PreparedOrderData(orderResult, p.body, p.timestamp, p.nonce)
               st == storePreparedOrder(preparedOrders, timers, h, data, now)
           IN  /\ preparedOrders' = st.orders
               /\ timers' = st.timers
               /\ storeLog' = storeLog \cup
                    {[hash |-> h, at |-> now, order |-> id, data |-> data]}
               /\ prep' = [prep EXCEPT ![id] = DonePrepare]
               /\ lastPrepare' =
                    [id |-> id, route |-> p.route, body |-> p.body, stored |-> TRUE,
                     resp |-> Send200(prepareResponseData(orderResult, h, messageToSign,
                                                          p.timestamp, p.nonce))]
     \/ /\ prep[id].route = "cross-chain"
        /\ LET result == createFusionOrderResult(id, prep[id].secretsCount,
                                                 orderParamsOf(prep[id].body))
           IN  /\ prep' = [prep EXCEPT ![id] = DonePrepare]
               /\ lastPrepare' =
                    [id |-> id, route |-> prep[id].route, body |-> prep[id].body,
                     stored |-> FALSE, resp |-> Send200(result)]
        /\ UNCHANGED <<preparedOrders, timers, storeLog>>
     \/ /\ AnsweredOn(prep[id].route, id, prep[id].body, 500, FailedToCreate(UpstreamFailure))
        /\ UNCHANGED <<preparedOrders, timers, storeLog>>
  /\ ForgetSubmit
  /\ UNCHANGED <<now, ticks, usedNonces, nSubmit,
                 upstream, verified, hits, liveCalls, evicted, vt,
                 mon, lastReveal, hl, fcall>>

(* ------------------------- POST /cross-chain --------------------------- *)
\* the request bodies tried; userWalletAddress gets a default the handler passes on to
\* createFusionOrder, which does not read it
CrossChainBodies ==
  [userWalletAddress : {Undefined},
   amount : {"1000000", Undefined},
   srcChainId : {1, 0},
   dstChainId : {8453, 1},
   srcToken : {Undefined},
   dstToken : {Undefined}]

\* the legacy handler from the request to the await of sdk.getQuote: no wallet is
\* asked for, no nonce generated, no signature awaited
CrossChain(id, body) ==
  /\ prep[id].pc = "idle"
  /\ \A j \in PrepareIds : j < id => prep[j].pc # "idle"
  /\ IF Falsy(body.amount)
       THEN /\ AnsweredOn("cross-chain", id, body, 400, "Amount is required")
            /\ UNCHANGED upstream
     ELSE IF FalsyNumber(body.srcChainId) \/ FalsyNumber(body.dstChainId)
       THEN /\ AnsweredOn("cross-chain", id, body, 400,
                          "Source and destination chain IDs are required")
            /\ UNCHANGED upstream
     ELSE IF createFusionOrderRejects(orderParamsOf(body)) # None
       THEN /\ AnsweredOn("cross-chain", id, body, 500,
                          FailedToCreate(createFusionOrderRejects(orderParamsOf(body))))
            /\ UNCHANGED upstream
     ELSE /\ prep' = [prep EXCEPT ![id] =
               [@ EXCEPT !.pc = "quote", !.route = "cross-chain", !.body = body]]
          /\ lastPrepare' = NoPrepare
          /\ upstream' = upstream (+) Called("getQuote", "cross-chain", 0)
  /\ ForgetSubmit
  /\ UNCHANGED <<now, ticks, preparedOrders, timers, usedNonces, nSubmit,
                 verified, hits, liveCalls, storeLog, evicted, vt,
                 mon, lastReveal, hl, fcall>>

(* -------------------- POST /submit-signed-order ----------------------- *)
\* order parameters a client asks a signature for instead of the prepared ones
TamperedParams ==
  [amount |-> "9000000", srcChainId |-> 1, dstChainId |-> 8453,
   srcTokenAddress |-> Undefined, dstTokenAddress |-> Undefined]

\* the accounts that sign, as ethers.verifyMessage spells their address
Signers == {"0xAA", "0xbb"}

\* a preparation hash no /prepare-order response carried
UnknownHash == createOrderPreparationHash("0xbb", TamperedParams, 0, ForgedNonce)

\* the order parameters of a preparation, which its client knows
PreparedParams(data) ==
  [amount |-> data.preparationData.amount,
   srcChainId |-> data.preparationData.srcChainId,
   dstChainId |-> data.preparationData.dstChainId,
   srcTokenAddress |-> data.preparationData.srcTokenAddress,
   dstTokenAddress |-> data.preparationData.dstTokenAddress]

\* the account an address belongs to, as ethers.verifyMessage spells it
AccountOf(address) == IF toLowerCase(address) = "0xaa" THEN "0xAA" ELSE address

Body(hash, wallet, signer, params, timestamp, nonce) ==
  [preparationHash |-> hash, userWalletAddress |-> wallet,
   signature |-> Sign(signer, generateSwapMessage(wallet, params, timestamp, nonce)),
   timestamp |-> timestamp, nonce |-> nonce, orderParams |-> TamperedParams]

\* The request bodies tried for a preparation that was answered (k of storeLog).
\* With the wallet's own signature over the message of the prepared order: the wallet
\* any of the addresses, timestamp and nonce those of the /prepare-order response or
\* the current time with a nonce of the client's own.  With the prepared wallet,
\* timestamp and nonce: a signature over other order parameters, another account's
\* signature, a malformed one, a timestamp two minutes ahead, and the honest body
\* with one of its five required fields left out.
BodiesFor(k) ==
  LET d == k.data
      P == PreparedParams(d)
      W == d.userWalletAddress
      honest == Body(k.hash, W, AccountOf(W), P, d.timestamp, d.nonce)
  IN  {Body(k.hash, w, AccountOf(w), P, tn[1], tn[2]) :
         w \in Addresses, tn \in {<<d.timestamp, d.nonce>>, <<now, ForgedNonce>>}}
      \cup
      {Body(k.hash, W, AccountOf(W), TamperedParams, d.timestamp, d.nonce),
       Body(k.hash, W, "0xbb", P, d.timestamp, d.nonce),
       [honest EXCEPT !.signature = Malformed],
       [honest EXCEPT !.signature = MissingSignature],
       [honest EXCEPT !.preparationHash = MissingHash],
       [honest EXCEPT !.userWalletAddress = Undefined],
       [honest EXCEPT !.timestamp = 0],
       [honest EXCEPT !.nonce = NoNonce],
       Body(k.hash, W, AccountOf(W), P, now + 2 * Minute, d.nonce)}

SubmitBodies ==
  UNION {BodiesFor(k) : k \in storeLog}
  \cup {Body(UnknownHash, w, w, TamperedParams, now, ForgedNonce) : w \in Signers}

\* the error of the 400 response to a body that lacks a required field
AllFieldsRequired ==
  "All fields are required: preparationHash, userWalletAddress, signature, timestamp, nonce"

\* !preparationHash || !userWalletAddress || !signature || !timestamp || !nonce
requiredFieldMissing(body) ==
  \/ body.preparationHash = MissingHash
  \/ Falsy(body.userWalletAddress)
  \/ body.signature = MissingSignature
  \/ FalsyNumber(body.timestamp)
  \/ body.nonce = NoNonce

\* variant: the wallet of the record is not compared
walletMatches_any(stored, given) == TRUE

\* preparedOrder.userWalletAddress.toLowerCase() === userWalletAddress.toLowerCase()
walletMatches(stored, given) == toLowerCase(stored) = toLowerCase(given)

\* variant: the message is generated from the orderParams of the request
reconstructOrderParams_fromRequest(preparedOrder, body) == body.orderParams

\* the orderParams the expected message is generated from
reconstructOrderParams(preparedOrder, body) ==
  [amount |-> preparedOrder.preparationData.amount,
   srcChainId |-> preparedOrder.preparationData.srcChainId,
   dstChainId |-> preparedOrder.preparationData.dstChainId,
   srcTokenAddress |-> preparedOrder.preparationData.srcTokenAddress,
   dstTokenAddress |-> preparedOrder.preparationData.dstTokenAddress]

\* validateTimestamp(timestamp) on the timestamp of the request body
timestampAccepted(preparedOrder, body, t_now) == validateTimestamp(body.timestamp, t_now)

\* the argument object the handler builds for submitPreparedOrder from the record
submitPreparedOrderArgs(po) ==
  [order |-> po.preparationData.order, quoteId |-> po.preparationData.quoteId,
   srcChainId |-> po.preparationData.srcChainId,
   secretHashes |-> po.preparationData.secretHashes]

\* the message of the TypeError of calling a value that is undefined
NotAFunction == "(0 , createOrder_1.submitPreparedOrder) is not a function"

\* variant: createOrder.ts exports the function, which submits the order and resolves
submitPreparedOrder_exported(args, orderHash) ==
  [threw |-> FALSE, message |-> None, status |-> "submitted",
   calls |-> Called("submitOrder", "submit-signed-order", orderHash)]

\* submitPreparedOrder(args): the name is imported from createOrder.ts, which exports
\* no such function, so the call throws the TypeError once its argument object is
\* built; nothing is sent to the network and nothing is awaited.  calls: the calls of
\* the 1inch SDK made, for the order named orderHash
submitPreparedOrder(args, orderHash) ==
  [threw |-> TRUE, message |-> NotAFunction, status |-> None, calls |-> EmptyBag]

\* the handler from the request to its response
SubmitSignedOrder(body) ==
  /\ nSubmit < MaxSubmit
  /\ nSubmit' = nSubmit + 1
  /\ LET id == nSubmit + 1
         c == consumePreparedOrder(preparedOrders, body.preparationHash)
         po == c.result
         expectedMessage ==
           generateSwapMessage(body.userWalletAddress, reconstructOrderParams(po, body),
                               body.timestamp, body.nonce)
         h == body.preparationHash
         live == (\E k \in storeLog : k.hash = h) /\ h \notin evicted
         called == /\ preparedOrders' = c.orders
                   /\ hits' = IF po # NullOrder THEN hits (+) SetToBag({h}) ELSE hits
                   /\ liveCalls' = IF live THEN liveCalls \cup {h} ELSE liveCalls
         seen(consumed, status, error) ==
           lastSubmit' = [id |-> id, at |-> now, body |-> body, consumed |-> consumed,
                          preparedOrder |-> IF consumed THEN po ELSE NullOrder,
                          reached |-> FALSE, args |-> NoSubmitArgs,
                          resp |-> Response(status, error), data |-> NoData]
     IN
     IF requiredFieldMissing(body)
       THEN /\ seen(FALSE, 400, AllFieldsRequired)
            /\ UNCHANGED <<preparedOrders, hits, liveCalls, verified, upstream>>
     ELSE IF po = NullOrder
       THEN /\ seen(FALSE, 404, "Prepared order not found or expired")
            /\ called
            /\ UNCHANGED <<verified, upstream>>
     ELSE IF ~walletMatches(po.userWalletAddress, body.userWalletAddress)
       THEN /\ seen(TRUE, 403, "User wallet address mismatch")
            /\ called
            /\ UNCHANGED <<verified, upstream>>
     ELSE IF ~timestampAccepted(po, body, now)
       THEN /\ seen(TRUE, 400, "Invalid or expired timestamp")
            /\ called
            /\ UNCHANGED <<verified, upstream>>
     ELSE IF ~verifyUserSignature(expectedMessage, body.signature, body.userWalletAddress)
       THEN /\ seen(TRUE, 403, "Invalid signature")
            /\ called
            /\ UNCHANGED <<verified, upstream>>
     ELSE LET args == submitPreparedOrderArgs(po)
              submitResult == submitPreparedOrder(args, po.orderHash)
              reachedCall == [id |-> id, at |-> now, body |-> body, consumed |-> TRUE,
                              preparedOrder |-> po, reached |-> TRUE, args |-> args,
                              resp |-> NoResponse, data |-> NoData]
          IN  /\ called
              /\ verified' = verified \cup {po.orderHash}
              /\ upstream' = upstream (+) submitResult.calls
              /\ IF submitResult.threw
                   THEN lastSubmit' =
                          [reachedCall EXCEPT !.resp = Response(500, submitResult.message)]
                   ELSE lastSubmit' =
                          [reachedCall EXCEPT
                             !.resp = Send200([orderHash |-> po.orderHash,
                                               status |-> submitResult.status,
                                               secrets |-> po.preparationData.secrets,
                                               userWalletAddress |-> po.userWalletAddress]),
                             !.data = [orderHash |-> po.orderHash,
                                       status |-> submitResult.status]]
  /\ lastPrepare' = NoPrepare
  /\ UNCHANGED <<now, ticks, timers, usedNonces, prep, storeLog, evicted, vt,
                 mon, lastReveal, hl, fcall>>

(* ------------------------- timers and clock --------------------------- *)
\* the setTimeout callback of storePreparedOrder: preparedOrders.delete(preparationHash)
TimerFires(t) ==
  /\ BagIn(t, timers)
  /\ now >= t.due
  /\ timers' = timers (-) SetToBag({t})
  /\ preparedOrders' = MapDelete(preparedOrders, t.hash)
  /\ evicted' = evicted \cup {t.hash}
  /\ Forget
  /\ UNCHANGED <<now, ticks, usedNonces, prep, nSubmit,
                 upstream, verified, hits, liveCalls, storeLog, vt,
                 mon, lastReveal, hl, fcall>>

\* time passes; a timer that is due runs before the clock moves on.  The clock is
\* followed from the arrival of the first /prepare-order request
Tick ==
  /\ ticks < MaxTicks
  /\ prep[1].pc # "idle"
  /\ \A t \in BagToSet(timers) : t.due > now
  /\ now' = now + TickStep
  /\ ticks' = ticks + 1
  /\ Forget
  /\ UNCHANGED <<preparedOrders, timers, usedNonces, prep, nSubmit,
                 upstream, verified, hits, liveCalls, storeLog, evicted, vt,
                 mon, lastReveal, hl, fcall>>

Next ==
  \/ \E id \in PrepareIds, body \in PrepareBodies : PrepareOrder(id, body)
  \/ \E id \in PrepareIds, body \in CrossChainBodies : CrossChain(id, body)
  \/ \E id \in PrepareIds : QuoteReturns(id)
  \/ \E id \in PrepareIds : CreateOrderReturns(id)
  \/ \E id \in PrepareIds : SubmitOrderReturns(id)
  \/ \E body \in SubmitBodies : SubmitSignedOrder(body)
  \/ \E t \in BagToSet(timers) : TimerFires(t)
  \/ Tick

Spec == Init /\ [][Next]_vars


(* ---------------------- validateTimestamp alone ----------------------- *)
\* the distances of the timestamp from Date.now() tried
TimestampOffsets ==
  {-11 * Minute, -10 * Minute - 1, -10 * Minute, -10 * Minute + 1, -5 * Minute, 0,
   Minute - 1, Minute, Minute + 1, 2 * Minute}

NowInputs == {StartTime + i * Minute : i \in 0..MaxNowMinutes}

\* one call validateTimestamp(timestamp) at Date.now() = t_now
ValidateTimestampCall(t_now, timestamp) ==
  /\ vt' = [called |-> TRUE, t_now |-> t_now, timestamp |-> timestamp,
            result |-> validateTimestamp(timestamp, t_now)]
  /\ UNCHANGED <<now, ticks, preparedOrders, timers, usedNonces, prep, lastPrepare, nSubmit,
                 lastSubmit, upstream, verified, hits, liveCalls,
                 storeLog, evicted, mon, lastReveal, hl, fcall>>

NextVT == \E t_now \in NowInputs, d \in TimestampOffsets : ValidateTimestampCall(t_now, t_now + d)

SpecVT == Init /\ [][NextVT]_vars

(* ------------------------- monitorOrderStatus ------------------------- *)
Statuses == {"pending", "executed", "expired", "refunded"}

\* status === "executed" || status === "expired" || status === "refunded"
isFinished_executedOnly(status) == status = "executed"
\* variant: the loop is left after the first status fetch
isFinished_always(status) == TRUE
isFinished(status) == status \in {"executed", "expired", "refunded"}

\* secretsToShare.fills values the network answers with for an order of n secrets:
\* the indexes of escrows ready for their secret, each at most once
FillLists(n) ==
  {f \in {<<>>, <<0>>, <<1>>, <<0, 1>>, <<1, 0>>} : \A j \in DOMAIN f : f[j] < n}

\* the indexes the for loop submits a secret for, in order: those of the fills reported
\* variant: a secret is submitted for every index of the order
toReveal_all(fills, secrets) == [j \in 1..Len(secrets) |-> j - 1]
\* variant: the loop is left after the first fill
toReveal_firstOnly(fills, secrets) == IF Len(fills) > 0 THEN <<fills[1]>> ELSE <<>>
toReveal(fills, secrets) == fills

\* secrets[idx] of the run of order m (JavaScript arrays count from 0)
\* variant: the secrets are read from a variable the runs share
secretToSubmit_shared(runs, m, idx) ==
  LET o == CHOOSE x \in MonitorIds : runs[x].pc # "idle" IN runs[o].secrets[idx + 1]
secretToSubmit(runs, m, idx) == runs[m].secrets[idx + 1]

\* `1inch API responded with status: ${response.status}`, thrown by getOrderStatus when
\* response.ok is false (the status tried is 500)
RespondedWithStatus == "1inch API responded with status: 500"

\* the messages of the Errors the call awaited at `call` can fail with:
\* sdk.getReadyToAcceptSecretFills and sdk.submitSecret reject; in getOrderStatus fetch
\* or response.json() rejects, or the response is not ok
FailureCauses(call) ==
  IF call \in {"status", "final"} THEN {UpstreamFailure, RespondedWithStatus}
  ELSE {UpstreamFailure}

\* the catch block of getOrderStatus: `Failed to get order status: ${message}`
FailedToGetOrderStatus(message) == "Failed to get order status: " \o message

\* the message of the Error that reaches the catch block of monitorOrderStatus
thrownInMonitor(call, message) ==
  IF call \in {"status", "final"} THEN FailedToGetOrderStatus(message) ELSE message

\* `Failed to monitor order status: ${message}`
FailedToMonitor(message) == "Failed to monitor order status: " \o message

\* the catch block of monitorOrderStatus: the run ends, the Error goes to the caller
\* variant: the loop is entered again after a failure
onFailure_retry(run, call, message) ==
  [run EXCEPT !.pc = "fills", !.failedCall = call, !.fills = <<>>, !.k = 0]
onFailure(run, call, message) ==
  [run EXCEPT !.pc = "failed", !.failedCall = call, !.fills = <<>>, !.k = 0,
              !.error = FailedToMonitor(thrownInMonitor(call, message))]

\* the run of order m calls sdk.submitSecret(hash, secrets[idx]) for the k-th index
\* of its loop over the fills reported
Reveal(m, fills, k) ==
  LET idx == toReveal(fills, mon[m].secrets)[k]
  IN  lastReveal' = [mon |-> m, hash |-> mon[m].hash, idx |-> idx,
                     secret |-> secretToSubmit(mon, m, idx), fills |-> fills]

Count(f, i) == Cardinality({j \in DOMAIN f : f[j] = i})

\* createCompleteFusionOrder: createFusionOrder returned {hash, secrets} for a quote of
\* n secrets; monitorOrderStatus(hash, secrets) runs to its first await
StartMonitor(m) ==
  /\ mon[m].pc = "idle"
  /\ \E n \in {1, 2} :
       mon' = [mon EXCEPT ![m] = [@ EXCEPT !.pc = "fills", !.hash = m,
                                           !.secrets = secretsOf(m, n), !.polls = 1]]
  /\ lastReveal' = NoReveal

\* sdk.getReadyToAcceptSecretFills returns: the first secret is submitted, or, without
\* fills, getOrderStatus is called
FillsReturn(m, fills) ==
  /\ mon[m].pc = "fills"
  /\ fills \in FillLists(Len(mon[m].secrets))
  /\ LET list == toReveal(fills, mon[m].secrets)
         reported == [i \in FillIndexes |-> mon[m].reported[i] + Count(fills, i)]
     IN  IF Len(list) # 0
           THEN /\ mon' = [mon EXCEPT ![m] =
                     [@ EXCEPT !.pc = "secret", !.fills = fills, !.k = 1,
                               !.reported = reported, !.revealed[list[1]] = @ + 1]]
                /\ Reveal(m, fills, 1)
           ELSE /\ mon' = [mon EXCEPT ![m] = [@ EXCEPT !.pc = "status", !.reported = reported]]
                /\ lastReveal' = NoReveal

\* sdk.submitSecret returns: the next secret is submitted, or, after the last,
\* getOrderStatus is called
SecretReturns(m) ==
  /\ mon[m].pc = "secret"
  /\ LET r == mon[m]
         list == toReveal(r.fills, r.secrets)
     IN
       IF r.k < Len(list)
         THEN /\ mon' = [mon EXCEPT ![m] =
                   [@ EXCEPT !.k = r.k + 1, !.revealed[list[r.k + 1]] = @ + 1]]
              /\ Reveal(m, r.fills, r.k + 1)
         ELSE /\ mon' = [mon EXCEPT ![m] = [@ EXCEPT !.pc = "status", !.fills = <<>>, !.k = 0]]
              /\ lastReveal' = NoReveal

\* getOrderStatus returns inside the loop: break and fetch the status again, or sleep
StatusReturns(m, status) ==
  /\ mon[m].pc = "status"
  /\ mon' = [mon EXCEPT ![m] =
       [@ EXCEPT !.status = status,
                 !.pc = IF isFinished(status) THEN "final" ELSE "sleep"]]
  /\ lastReveal' = NoReveal

\* sleep(1000) returns: the next iteration calls sdk.getReadyToAcceptSecretFills
SleepReturns(m) ==
  /\ mon[m].pc = "sleep"
  /\ mon[m].polls < MaxPolls
  /\ mon' = [mon EXCEPT ![m] = [@ EXCEPT !.pc = "fills", !.polls = @ + 1]]
  /\ lastReveal' = NoReveal

\* getOrderStatus returns after the loop: monitorOrderStatus returns its answer
FinalStatusReturns(m, status) ==
  /\ mon[m].pc = "final"
  /\ mon' = [mon EXCEPT ![m] = [@ EXCEPT !.pc = "returned", !.result = status]]
  /\ lastReveal' = NoReveal

\* the call awaited throws: sdk.getReadyToAcceptSecretFills, sdk.submitSecret or
\* getOrderStatus
CallFails(m) ==
  /\ mon[m].pc \in {"fills", "secret", "status", "final"}
  /\ \E message \in FailureCauses(mon[m].pc) :
       mon' = [mon EXCEPT ![m] = onFailure(@, mon[m].pc, message)]
  /\ lastReveal' = NoReveal

restIdle ==
  UNCHANGED <<now, ticks, preparedOrders, timers, usedNonces, prep, lastPrepare, nSubmit,
              lastSubmit, upstream, verified, hits, liveCalls,
              storeLog, evicted, vt, hl, fcall>>

\* the steps of the run of order m
MonitorStep(m) ==
  \/ StartMonitor(m)
  \/ \E fills \in FillLists(2) : FillsReturn(m, fills)
  \/ SecretReturns(m)
  \/ \E status \in Statuses : StatusReturns(m, status)
  \/ SleepReturns(m)
  \/ \E status \in Statuses : FinalStatusReturns(m, status)
  \/ CallFails(m)

NextMon == \E m \in MonitorIds : MonitorStep(m) /\ restIdle

SpecMon == Init /\ [][NextMon]_vars

\* one run alone, its continuations run by the event loop whenever their await settles
NextMonOne == MonitorStep(1) /\ restIdle

SpecMonOne == Init /\ [][NextMonOne]_vars /\ WF_vars(MonitorStep(1) /\ restIdle)

\* the statuses a network reports that reaches a terminal status, at the latest when the
\* last iteration tried asks, and then keeps reporting it, to the run of order m
StatusesOfSettlingNetwork(m) ==
  IF mon[m].status \in {"executed", "expired", "refunded"} THEN {mon[m].status}
  ELSE IF mon[m].polls = MaxPolls THEN {"executed", "expired", "refunded"}
  ELSE Statuses

\* the steps of the run of order m when no call fails and the network settles
MonitorStepSettling(m) ==
  \/ StartMonitor(m)
  \/ \E fills \in FillLists(2) : FillsReturn(m, fills)
  \/ SecretReturns(m)
  \/ \E status \in StatusesOfSettlingNetwork(m) : StatusReturns(m, status)
  \/ SleepReturns(m)
  \/ \E status \in StatusesOfSettlingNetwork(m) : FinalStatusReturns(m, status)

NextMonLive == \E m \in MonitorIds : MonitorStepSettling(m) /\ restIdle

\* the event loop runs every continuation whose await has settled
SpecMonLive ==
  Init /\ [][NextMonLive]_vars /\ \A m \in MonitorIds : WF_vars(MonitorStepSettling(m) /\ restIdle)

(* ------------------ secrets and hash lock of an order ------------------ *)
\* values randomBytes(32) returns
RandomValues == {"0x01", "0x02", "0x03", "0x04", "0x05"}

\* Array.from({length: n}).map(() => "0x" + randomBytes(32).toString("hex"))
generateSecrets(n, random) == [i \in 1..n |-> random[i]]

\* secrets.map((s) => HashLock.hashSecret(s))
secretHashesOf(secrets) == [i \in 1..Len(secrets) |-> hashSecret(secrets[i])]

\* HashLock.forSingleFill: the lock of one secret
forSingleFill(secret) == [kind |-> "single", hash |-> hashSecret(secret)]
\* HashLock.getMerkleLeaves: one leaf per secret, from its index and its hash
getMerkleLeaves(secrets) ==
  [i \in 1..Len(secrets) |-> [idx |-> i - 1, secretHash |-> hashSecret(secrets[i])]]
\* HashLock.forMultipleFills: the lock over the Merkle tree of the leaves
forMultipleFills(leaves) == [kind |-> "multiple", leaves |-> leaves]

\* variant: the lock is always the single-fill lock of the first secret
makeHashLock_firstOnly(secrets) == forSingleFill(secrets[1])
\* secrets.length === 1 ? forSingleFill(secrets[0]) : forMultipleFills(getMerkleLeaves(secrets))
makeHashLock(secrets) ==
  IF Len(secrets) = 1 THEN forSingleFill(secrets[1])
  ELSE forMultipleFills(getMerkleLeaves(secrets))

\* createFusionOrder between sdk.getQuote and sdk.createOrder, for a quote of n secrets
BuildHashLock(n, random) ==
  /\ LET secrets == generateSecrets(n, random)
     IN  hl' = [called |-> TRUE, n |-> n, secrets |-> secrets,
                secretHashes |-> secretHashesOf(secrets), hashLock |-> makeHashLock(secrets)]
  /\ UNCHANGED <<now, ticks, preparedOrders, timers, usedNonces, prep, lastPrepare, nSubmit,
                 lastSubmit, upstream, verified, hits, liveCalls,
                 storeLog, evicted, vt, mon, lastReveal, fcall>>

NextHL == \E n \in 1..MaxSecrets, random \in [1..MaxSecrets -> RandomValues] : BuildHashLock(n, random)

SpecHL == Init /\ [][NextHL]_vars

(* ------------------- createOrderPreparationHash alone ------------------ *)
\* a step that is one call of a function: every other variable is left alone
onlyCall ==
  UNCHANGED <<now, ticks, preparedOrders, timers, usedNonces, prep, lastPrepare, nSubmit,
              lastSubmit, upstream, verified, hits, liveCalls,
              storeLog, evicted, vt, mon, lastReveal, hl>>

\* the preparations hashed
HashInputs ==
  [userWalletAddress : {"0xaa", "0xbb"},
   orderParams : [amount : {"1000000", "9000000"}, srcChainId : {1}, dstChainId : {8453, 56},
                  srcTokenAddress : {Undefined}, dstTokenAddress : {Undefined}],
   timestamp : {StartTime, StartTime + Minute},
   nonce : {Nonce(1), Nonce(2)}]

\* createOrderPreparationHash is called on preparation a, then on preparation b
HashTwo(a, b) ==
  /\ fcall' = [op |-> "createOrderPreparationHash", a |-> a, b |-> b,
               hashA |-> createOrderPreparationHash(a.userWalletAddress, a.orderParams,
                                                    a.timestamp, a.nonce),
               hashB |-> createOrderPreparationHash(b.userWalletAddress, b.orderParams,
                                                    b.timestamp, b.nonce)]
  /\ onlyCall

NextHash == \E a, b \in HashInputs : HashTwo(a, b)

SpecHash == Init /\ [][NextHash]_vars

(* ------------------ POST /prepare-order: the amounts ------------------- *)
\* a JavaScript number: NaN, or a value
NaN == [nan |-> TRUE, value |-> 0]
Num(v) == [nan |-> FALSE, value |-> v]
\* the amount strings tried; any other text has no leading number
parseFloat(s) ==
  CASE s = "1000000" -> Num(1000000)
    [] s = "1" -> Num(1)
    [] s = "0" -> Num(0)
    [] s = "-5" -> Num(-5)
    [] OTHER -> NaN
\* x <= c and x > c of JavaScript: false when x is NaN
LessOrEqual(x, c) == ~x.nan /\ x.value <= c
Greater(x, c) == ~x.nan /\ x.value > c

\* the request bodies tried, over the amounts a client can send
AmountBodies ==
  [userWalletAddress : {"0xAA", "0xbb", "0xnot-an-address", Undefined},
   amount : {"1000000", "0", "-5", "abc", Undefined},
   srcChainId : {1, 0},
   dstChainId : {8453, 1, 137},
   srcToken : {Undefined, "0xA0b86991c6218b36c1d19D4a2e9Eb0cE3606eB48"},
   dstToken : {Undefined}]

NextPrep ==
  \E id \in PrepareIds :
    \/ \E body \in AmountBodies : PrepareOrder(id, body)
    \/ QuoteReturns(id)
    \/ CreateOrderReturns(id)
    \/ SubmitOrderReturns(id)

SpecPrep == Init /\ [][NextPrep]_vars

(* ------------- getQuote and createFusionOrder, called alone ------------ *)
\* getQuote up to its await: None, or the message of the Error thrown
getQuoteRejects(p) ==
  IF FalsyNumber(p.srcChainId) \/ FalsyNumber(p.dstChainId)
    THEN "Source and destination chain IDs are required"
  ELSE IF p.srcChainId = p.dstChainId
    THEN "Source and destination chain IDs must be different for cross-chain swaps"
  ELSE IF Falsy(p.srcTokenAddress) /\ getDefaultTokenForChain(p.srcChainId) = Null
    THEN SourceTokenRequired(p.srcChainId)
  ELSE IF Falsy(p.dstTokenAddress) /\ getDefaultTokenForChain(p.dstChainId) = Null
    THEN DestinationTokenRequired(p.dstChainId)
  ELSE IF \/ Falsy(finalToken(p.srcTokenAddress, p.srcChainId))
          \/ Falsy(finalToken(p.dstTokenAddress, p.dstChainId))
    THEN "Invalid token addresses"
  ELSE IF Falsy(p.amount) \/ LessOrEqual(parseFloat(p.amount), 0)
    THEN "Invalid amount"
  ELSE None

\* the catch block of getQuote: `Failed to get quote: ${message}`
FailedToGetQuote(message) == "Failed to get quote: " \o message

\* the quotePayload handed to sdk.getQuote
quotePayload(p) ==
  [amount |-> p.amount, srcChainId |-> p.srcChainId, dstChainId |-> p.dstChainId,
   enableEstimate |-> TRUE,
   srcTokenAddress |-> finalToken(p.srcTokenAddress, p.srcChainId),
   dstTokenAddress |-> finalToken(p.dstTokenAddress, p.dstChainId)]

NoPayload ==
  [amount |-> Undefined, srcChainId |-> 0, dstChainId |-> 0, enableEstimate |-> FALSE,
   srcTokenAddress |-> Undefined, dstTokenAddress |-> Undefined]

\* the arguments tried: chains 10 and 137 have no entry in DEFAULT_TOKENS
FunctionArgs ==
  [amount : {"1000000", "0", "-5", "abc", Undefined},
   srcChainId : {0, 1, 10, 137},
   dstChainId : {1, 8453, 10, 137},
   srcTokenAddress : {Undefined, "0xdAC17F958D2ee523a2206206994597C13D831ec7"},
   dstTokenAddress : {Undefined, "0x50c5725949A6F0c72E6C4a641F24049A917DB0Cb"}]

\* what the function's validation throws, and its catch block makes of a message
Rejects(fn, p) == IF fn = "getQuote" THEN getQuoteRejects(p) ELSE createFusionOrderRejects(p)
Rethrown(fn, message) ==
  IF fn = "getQuote" THEN FailedToGetQuote(message) ELSE FailedToCreate(message)

\* variant: createCompleteFusionOrder goes on to monitor after a failed creation
onThrow_completes(fn) == IF fn = "createCompleteFusionOrder" THEN "created" ELSE "failed"
\* where the call of fn stands once an Error is thrown inside it: every catch block
\* throws again, nothing is retried or continued
onThrow(fn) == "failed"

\* the call throws: sdkCalls are the calls of the 1inch SDK made so far, in order
Throws(message) ==
  fcall' = [fcall EXCEPT !.pc = onThrow(fcall.op), !.error = Rethrown(fcall.op, message)]

\* fn(p) from the call to its await of sdk.getQuote, or to the Error it throws; route
\* and response are those of the request handler that made the call, if one did
Calling(fn, p) ==
  IF Rejects(fn, p) # None
    THEN [op |-> fn, args |-> p, pc |-> onThrow(fn), payload |-> NoPayload,
          sdkCalls |-> <<>>, error |-> Rethrown(fn, Rejects(fn, p)),
          srcToken |-> Undefined, dstToken |-> Undefined, hash |-> 0,
          created |-> FALSE, finalStatus |-> None, route |-> None, response |-> NoResponse]
    ELSE [op |-> fn, args |-> p, pc |-> "quote", payload |-> quotePayload(p),
          sdkCalls |-> <<"getQuote">>, error |-> None,
          srcToken |-> Undefined, dstToken |-> Undefined, hash |-> 0,
          created |-> FALSE, finalStatus |-> None, route |-> None, response |-> NoResponse]

CallFunction(fn, p) ==
  /\ fcall.op = None
  /\ fcall' = Calling(fn, p)
  /\ onlyCall

\* sdk.getQuote answers: getQuote returns {quote, srcToken, dstToken};
\* createFusionOrder builds secrets and hash lock and awaits sdk.createOrder
SdkQuoteReturns ==
  /\ fcall.op # None
  /\ fcall.pc = "quote"
  /\ \/ /\ fcall.op = "getQuote"
        /\ fcall' = [fcall EXCEPT !.pc = "returned",
                                  !.srcToken = fcall.payload.srcTokenAddress,
                                  !.dstToken = fcall.payload.dstTokenAddress]
     \/ /\ fcall.op # "getQuote"
        /\ fcall' = [fcall EXCEPT !.pc = "create",
                                  !.sdkCalls = Append(@, "createOrder")]
     \/ Throws(UpstreamFailure)
  /\ onlyCall

\* sdk.createOrder answers {hash, quoteId, order}: sdk.submitOrder is awaited
SdkCreateOrderReturns ==
  /\ fcall.op # None
  /\ fcall.pc = "create"
  /\ \/ fcall' = [fcall EXCEPT !.pc = "submit", !.hash = 1,
                               !.sdkCalls = Append(@, "submitOrder")]
     \/ Throws(UpstreamFailure)
  /\ onlyCall

\* sdk.submitOrder answers: createFusionOrder returns {hash, secrets, ...}, to its
\* caller or to the await of createCompleteFusionOrder
SdkSubmitOrderReturns ==
  /\ fcall.op # None
  /\ fcall.pc = "submit"
  /\ \/ fcall' = [fcall EXCEPT !.created = TRUE,
                               !.pc = IF fcall.op = "createCompleteFusionOrder"
                                        THEN "created" ELSE "returned"]
     \/ Throws(UpstreamFailure)
  /\ onlyCall

NextFn ==
  \/ \E fn \in {"getQuote", "createFusionOrder"}, p \in FunctionArgs : CallFunction(fn, p)
  \/ SdkQuoteReturns
  \/ SdkCreateOrderReturns
  \/ SdkSubmitOrderReturns

SpecFn == Init /\ [][NextFn]_vars

(* ----------------------- verifyUserSignature alone --------------------- *)
\* the accounts that sign, by the checksummed address ethers recovers
SigningAccounts == {"0xAA", "0xbb"}

\* the messages generateSwapMessage builds for the preparations tried
SwapMessages ==
  {generateSwapMessage(w, [amount |-> a, srcChainId |-> 1, dstChainId |-> 8453,
                           srcTokenAddress |-> Undefined, dstTokenAddress |-> Undefined],
                       t, Nonce(1)) :
     w \in SigningAccounts, a \in {"1000000", "9000000"}, t \in {StartTime, StartTime + Minute}}

\* the signature strings tried: every account over every message, and a malformed one
Signatures == {Sign(w, m) : w \in SigningAccounts, m \in SwapMessages} \cup {Malformed}

\* one call verifyUserSignature(message, signature, expectedWalletAddress)
VerifyCall(message, signature, expectedWalletAddress) ==
  /\ fcall' = [op |-> "verifyUserSignature", message |-> message, signature |-> signature,
               expectedWalletAddress |-> expectedWalletAddress,
               result |-> verifyUserSignature(message, signature, expectedWalletAddress)]
  /\ onlyCall

NextSig ==
  \E message \in SwapMessages, signature \in Signatures, expected \in Addresses :
    VerifyCall(message, signature, expected)

SpecSig == Init /\ [][NextSig]_vars

(* ----------------------- the secure (v2) server ------------------------ *)
\* the requests tried: method, path by segment, and body
Methods == {"GET", "POST", "PUT", "DELETE", "OPTIONS"}
RequestPaths ==
  {<<"health">>, <<"api", "unknown">>,
   <<"api", "swap">>, <<"api", "swap", "quote">>,
   <<"api", "swap", "prepare-order">>, <<"api", "swap", "submit-signed-order">>,
   <<"api", "swap", "cross-chain">>, <<"api", "swap", "cross-chain", "complete">>,
   <<"api", "v2", "swap", "health">>, <<"api", "v2", "swap", "security-info">>,
   <<"api", "v2", "swap", "prepare-order">>, <<"api", "v2", "swap", "submit-signed-order">>,
   <<"api", "v2", "swap", "cross-chain">>, <<"api", "v2", "swap", "cross-chain", "complete">>}
\* no body, a JSON body, a body announced as JSON that does not parse
RequestBodies == {"none", "json", "malformed"}
SecureRequests == [method : Methods, path : RequestPaths, body : RequestBodies]

\* app.use(mount, ...) and router.all(`${mount}*`): the path starts with the mount path
MountedAt(mount, path) == Len(path) >= Len(mount) /\ SubSeq(path, 1, Len(mount)) = mount
\* the path below the mount point
Below(mount, path) == SubSeq(path, Len(mount) + 1, Len(path))

\* a response, and the calls of the 1inch SDK the handler made for it
Reply(status, error) == [status |-> status, error |-> error, sdkCalls |-> EmptyBag]
\* no route of the router matches: next()
NotHandled == Reply(0, None)

\* variant: the legacy handler is still mounted and creates the order
Deprecated_stillServed(error) ==
  [status |-> 200, error |-> None, sdkCalls |-> Called("submitOrder", "cross-chain", 0)]
\* res.status(410).json({success: false, error, ...})
Deprecated(error) == Reply(410, error)

\* the routes of apis/secureSwap that the paths tried can match
secureSwapRouter(method, path) ==
  IF method = "GET" /\ path \in {<<"health">>, <<"security-info">>}
    THEN Reply(200, None)
  ELSE IF MountedAt(<<"cross-chain">>, path)
    THEN Deprecated("DEPRECATED: Custodial endpoints removed for security compliance")
  ELSE IF MountedAt(<<"prepare-order">>, path)
    THEN Deprecated("DEPRECATED: Order preparation moved to frontend for security")
  ELSE IF MountedAt(<<"submit-signed-order">>, path)
    THEN Deprecated("DEPRECATED: Order submission moved to frontend for security")
  ELSE NotHandled

\* the middleware chain of the secure server, in the order of its app.use calls
secureServer(req) ==
  IF req.body = "malformed"
    THEN Reply(500, "Internal server error")
  ELSE IF req.method = "OPTIONS"
    THEN Reply(200, None)
  ELSE IF req.method = "GET" /\ req.path = <<"health">>
    THEN Reply(200, None)
  ELSE IF /\ MountedAt(<<"api", "v2", "swap">>, req.path)
          /\ secureSwapRouter(req.method, Below(<<"api", "v2", "swap">>, req.path)) # NotHandled
    THEN secureSwapRouter(req.method, Below(<<"api", "v2", "swap">>, req.path))
  ELSE IF MountedAt(<<"api", "swap">>, req.path)
    THEN Deprecated("DEPRECATED: Legacy swap endpoints removed for security compliance")
  ELSE Reply(404, "Route not found")

\* the secure server answers one request
SecureRequest(req) ==
  /\ fcall' = [op |-> "request", req |-> req, status |-> secureServer(req).status,
               error |-> secureServer(req).error, sdkCalls |-> secureServer(req).sdkCalls]
  /\ upstream' = upstream (+) secureServer(req).sdkCalls
  /\ UNCHANGED <<now, ticks, preparedOrders, timers, usedNonces, prep, lastPrepare, nSubmit,
                 lastSubmit, verified, hits, liveCalls,
                 storeLog, evicted, vt, mon, lastReveal, hl>>

NextSecure == \E req \in SecureRequests : SecureRequest(req)

SpecSecure == Init /\ [][NextSecure]_vars

(* --------------------- createCompleteFusionOrder ---------------------- *)
\* every variable but fcall, mon and lastReveal
restCreates ==
  UNCHANGED <<now, ticks, preparedOrders, timers, usedNonces, prep, lastPrepare, nSubmit,
              lastSubmit, upstream, verified, hits, liveCalls,
              storeLog, evicted, vt, hl>>

\* the await of createFusionOrder has settled with orderResult:
\* monitorOrderStatus(orderResult.hash, orderResult.secrets) is called
CompleteStartsMonitor ==
  /\ fcall.op = "createCompleteFusionOrder"
  /\ fcall.pc = "created"
  /\ fcall' = [fcall EXCEPT !.pc = "monitor"]
  /\ StartMonitor(1)
  /\ restCreates

\* a step of the monitorOrderStatus run that createCompleteFusionOrder awaits
CompleteMonitors ==
  /\ fcall.op = "createCompleteFusionOrder"
  /\ \/ \E fills \in FillLists(2) : FillsReturn(1, fills)
     \/ SecretReturns(1)
     \/ \E status \in Statuses : StatusReturns(1, status)
     \/ SleepReturns(1)
     \/ \E status \in Statuses : FinalStatusReturns(1, status)
     \/ CallFails(1)
  /\ restIdle

\* monitorOrderStatus has settled: {...orderResult, finalStatus} is returned, or the
\* Error is thrown on
CompleteReturns ==
  /\ fcall.op = "createCompleteFusionOrder"
  /\ fcall.pc = "monitor"
  /\ \/ /\ mon[1].pc = "returned"
        /\ fcall' = [fcall EXCEPT !.pc = "returned", !.finalStatus = mon[1].result]
     \/ /\ mon[1].pc = "failed"
        /\ fcall' = [fcall EXCEPT !.pc = "failed", !.error = mon[1].error]
  /\ UNCHANGED <<mon, lastReveal>>
  /\ restCreates

\* the arguments tried for createCompleteFusionOrder
CompleteArgs ==
  [amount : {"1000000"},
   srcChainId : {0, 1, 137},
   dstChainId : {1, 8453},
   srcTokenAddress : {Undefined},
   dstTokenAddress : {Undefined, "0x50c5725949A6F0c72E6C4a641F24049A917DB0Cb"}]

NextComplete ==
  \/ \E p \in CompleteArgs : CallFunction("createCompleteFusionOrder", p)
  \/ SdkQuoteReturns
  \/ SdkCreateOrderReturns
  \/ SdkSubmitOrderReturns
  \/ CompleteStartsMonitor
  \/ CompleteMonitors
  \/ CompleteReturns

SpecComplete == Init /\ [][NextComplete]_vars

(* ------- GET /quote, GET /order-status, POST /cross-chain/complete ------ *)
\* Number(value) of a chain id given in a query string or a JSON body
Number(value) ==
  CASE value = "1" -> 1
    [] value = "8453" -> 8453
    [] OTHER -> 0

\* the requests tried.  The chain ids are the strings of a query (every non-empty
\* string is truthy, "0" too) or of a body; Undefined is a field left out
RouteRequests ==
  [route : {"quote", "cross-chain/complete"},
   amount : {"1000000", Undefined},
   srcChainId : {"1", "0", Undefined},
   dstChainId : {"8453", "1"},
   srcToken : {Undefined},
   dstToken : {Undefined}]
  \cup
  [route : {"order-status"}, orderHash : {1, 2}]

\* the arguments the handler of /quote and of /cross-chain/complete calls its function with
routeArgs(req) ==
  [amount |-> req.amount, srcChainId |-> Number(req.srcChainId),
   dstChainId |-> Number(req.dstChainId),
   srcTokenAddress |-> req.srcToken, dstTokenAddress |-> req.dstToken]

\* getOrderStatus(hash) takes no order parameters
NoArgs ==
  [amount |-> Undefined, srcChainId |-> 0, dstChainId |-> 0,
   srcTokenAddress |-> Undefined, dstTokenAddress |-> Undefined]

\* the handler answers 400 before it calls anything
routeRejects(req) ==
  IF req.route = "quote"
    THEN IF Falsy(req.amount) \/ Falsy(req.srcChainId) \/ Falsy(req.dstChainId)
           THEN "Amount, source chain ID, and destination chain ID are required"
           ELSE None
  ELSE IF req.route = "cross-chain/complete"
    THEN IF Falsy(req.amount) THEN "Amount is required"
         ELSE IF Falsy(req.srcChainId) \/ Falsy(req.dstChainId)
           THEN "Source and destination chain IDs are required"
         ELSE None
  ELSE None

\* the function the handler of a route awaits
routeFunction(route) ==
  CASE route = "quote" -> "getQuote"
    [] route = "cross-chain/complete" -> "createCompleteFusionOrder"
    [] OTHER -> "getOrderStatus"

\* the handler from the request to its 400 response or to the first await of the
\* function it calls: sdk.getQuote, or the fetch of getOrderStatus
RouteRequest(req) ==
  /\ fcall.op = None
  /\ fcall' =
       IF req.route = "order-status"
         THEN [Calling("getOrderStatus", NoArgs) EXCEPT
                 !.pc = "fetch", !.sdkCalls = <<"fetch">>, !.error = None,
                 !.payload = NoPayload, !.hash = req.orderHash, !.route = req.route]
       ELSE IF routeRejects(req) # None
         THEN [Calling(routeFunction(req.route), routeArgs(req)) EXCEPT
                 !.op = "none called", !.pc = "answered", !.sdkCalls = <<>>,
                 !.payload = NoPayload, !.error = None, !.route = req.route,
                 !.response = Response(400, routeRejects(req))]
       ELSE [Calling(routeFunction(req.route), routeArgs(req)) EXCEPT !.route = req.route]
  /\ onlyCall

\* the fetch of getOrderStatus and response.json() settle: the status object is
\* returned, or the catch block throws `Failed to get order status: ${message}`
GetOrderStatusReturns ==
  /\ fcall.op = "getOrderStatus"
  /\ fcall.pc = "fetch"
  /\ \/ \E status \in Statuses :
          fcall' = [fcall EXCEPT !.pc = "returned", !.finalStatus = status]
     \/ \E message \in FailureCauses("status") :
          fcall' = [fcall EXCEPT !.pc = "failed",
                                 !.error = FailedToGetOrderStatus(message)]
  /\ onlyCall

\* the function the handler awaits has settled: 200 with its result, or 500 with the
\* message of the Error it threw
RouteAnswers ==
  /\ fcall.op # None
  /\ fcall.route # None
  /\ fcall.response = NoResponse
  /\ fcall.pc \in {"returned", "failed"}
  /\ fcall' = [fcall EXCEPT !.response =
                 IF fcall.pc = "returned" THEN Response(200, None)
                 ELSE Response(500, fcall.error)]
  /\ UNCHANGED <<mon, lastReveal>>
  /\ restCreates

NextRoutes ==
  \/ \E req \in RouteRequests : RouteRequest(req)
  \/ SdkQuoteReturns
  \/ SdkCreateOrderReturns
  \/ SdkSubmitOrderReturns
  \/ CompleteStartsMonitor
  \/ CompleteMonitors
  \/ CompleteReturns
  \/ GetOrderStatusReturns
  \/ RouteAnswers

SpecRoutes == Init /\ [][NextRoutes]_vars

(* ------------- POST /prepare-order with a record in the store ---------- *)
\* an earlier /prepare-order request, answered with success at StartTime
EarlierOrder == MaxPrepare + 1
EarlierBody ==
  [userWalletAddress |-> "0xbb", amount |-> "1000000", srcChainId |-> 1,
   dstChainId |-> 8453, srcToken |-> Undefined, dstToken |-> Undefined]
EarlierHash ==
  createOrderPreparationHash(EarlierBody.userWalletAddress, orderParamsOf(EarlierBody),
                             StartTime, generateNonce({}))
EarlierData ==
  PreparedOrderData(createFusionOrderResult(EarlierOrder, CHOOSE n \in SecretCounts : TRUE,
                                            orderParamsOf(EarlierBody)),
                    EarlierBody, StartTime,
                    generateNonce({}))

\* the state that request has left: its record stored, its deletion scheduled, its
\* three calls of the 1inch SDK made
InitStocked ==
  /\ now = StartTime
  /\ ticks = 0
  /\ preparedOrders = storePreparedOrder(EmptyMap, EmptyBag, EarlierHash, EarlierData, StartTime).orders
  /\ timers = storePreparedOrder(EmptyMap, EmptyBag, EarlierHash, EarlierData, StartTime).timers
  /\ usedNonces = {generateNonce({})}
  /\ prep = [i \in PrepareIds |-> IdlePrepare]
  /\ lastPrepare = NoPrepare
  /\ nSubmit = 0
  /\ lastSubmit = NoSubmit
  /\ upstream = Called("getQuote", "prepare-order", 0)
                (+) Called("createOrder", "prepare-order", EarlierOrder)
                (+) Called("submitOrder", "prepare-order", EarlierOrder)
  /\ verified = {}
  /\ hits = EmptyBag
  /\ liveCalls = {}
  /\ storeLog = {[hash |-> EarlierHash, at |-> StartTime, order |-> EarlierOrder,
                  data |-> EarlierData]}
  /\ evicted = {}
  /\ vt = NoEvaluation
  /\ mon = [m \in MonitorIds |-> IdleMonitor]
  /\ lastReveal = NoReveal
  /\ hl = NoHashLock
  /\ fcall = NoCall

SpecStocked == InitStocked /\ [][NextPrep]_vars

\* the requests of the three routes that arrive after that earlier request, before
\* the clock has moved on
NextServing ==
  \/ \E id \in PrepareIds, body \in PrepareBodies : PrepareOrder(id, body)
  \/ \E id \in PrepareIds, body \in CrossChainBodies : CrossChain(id, body)
  \/ \E id \in PrepareIds : QuoteReturns(id)
  \/ \E id \in PrepareIds : CreateOrderReturns(id)
  \/ \E id \in PrepareIds : SubmitOrderReturns(id)
  \/ \E body \in SubmitBodies : SubmitSignedOrder(body)

SpecServing == InitStocked /\ [][NextServing]_vars

(* ---------------------- the prepared-order store alone ------------------ *)
\* the preparation hashes and the records the store is called with
StoreKeys == {EarlierHash, UnknownHash}
StoreRecords == {EarlierData, [EarlierData EXCEPT !.userWalletAddress = "0xAA"]}

\* no record put under a hash, or the one put was consumed
NotHeld == [at |-> 0, data |-> NullOrder]
\* per hash, the latest storePreparedOrder call not followed by a successful consume
Held == IF fcall.op = None THEN [h \in StoreKeys |-> NotHeld] ELSE fcall.held
PutsMade == IF fcall.op = None THEN 0 ELSE fcall.puts

\* storePreparedOrder(preparationHash, orderData)
StorePut(h, d) ==
  /\ PutsMade < MaxPuts
  /\ preparedOrders' = storePreparedOrder(preparedOrders, timers, h, d, now).orders
  /\ timers' = storePreparedOrder(preparedOrders, timers, h, d, now).timers
  /\ fcall' = [op |-> "storePreparedOrder", hash |-> h, at |-> now, result |-> NullOrder,
               before |-> Held[h], puts |-> PutsMade + 1,
               held |-> [Held EXCEPT ![h] = [at |-> now, data |-> d]]]
  /\ UNCHANGED <<now, ticks, usedNonces, prep, lastPrepare, nSubmit, lastSubmit,
                 upstream, verified, hits, liveCalls, storeLog, evicted, vt,
                 mon, lastReveal, hl>>

\* consumePreparedOrder(preparationHash)
StoreConsume(h) ==
  /\ preparedOrders' = consumePreparedOrder(preparedOrders, h).orders
  /\ fcall' = [op |-> "consumePreparedOrder", hash |-> h, at |-> now,
               result |-> consumePreparedOrder(preparedOrders, h).result,
               before |-> Held[h], puts |-> PutsMade,
               held |-> IF consumePreparedOrder(preparedOrders, h).result # NullOrder
                          THEN [Held EXCEPT ![h] = NotHeld] ELSE Held]
  /\ UNCHANGED <<now, ticks, timers, usedNonces, prep, lastPrepare, nSubmit,
                 lastSubmit, upstream, verified, hits, liveCalls, storeLog,
                 evicted, vt, mon, lastReveal, hl>>

\* clearExpiredPreparedOrders(): every record whose timestamp field is more than
\* 15 minutes old is deleted; the timers stay as they are
StoreClear ==
  /\ preparedOrders' = clearExpiredPreparedOrders(preparedOrders, now)
  /\ fcall' = [op |-> "clearExpiredPreparedOrders", hash |-> UnknownHash, at |-> now,
               result |-> NullOrder, before |-> NotHeld, puts |-> PutsMade,
               held |-> Held]
  /\ UNCHANGED <<now, ticks, timers, usedNonces, prep, lastPrepare, nSubmit,
                 lastSubmit, upstream, verified, hits, liveCalls, storeLog,
                 evicted, vt, mon, lastReveal, hl>>

\* time passes; a timer that is due runs before the clock moves on
StoreClock ==
  /\ ticks < MaxTicks
  /\ \A t \in BagToSet(timers) : t.due > now
  /\ now' = now + TickStep
  /\ ticks' = ticks + 1
  /\ UNCHANGED <<preparedOrders, timers, usedNonces, prep, lastPrepare, nSubmit,
                 lastSubmit, upstream, verified, hits, liveCalls, storeLog,
                 evicted, vt, mon, lastReveal, hl, fcall>>

NextStore ==
  \/ \E h \in StoreKeys, d \in StoreRecords : StorePut(h, d)
  \/ \E h \in StoreKeys : StoreConsume(h)
  \/ StoreClear
  \/ \E t \in BagToSet(timers) : TimerFires(t)
  \/ StoreClock

SpecStore == Init /\ [][NextStore]_vars

(* ------------ validateOrderParams, validateSignedOrderRequest ---------- *)
\* errors.push(message) when the condition holds
PushIf(condition, message) == IF condition THEN <<message>> ELSE <<>>

validateOrderParams(orderParams) ==
  LET errors ==
        PushIf(Falsy(orderParams.amount) \/ LessOrEqual(parseFloat(orderParams.amount), 0),
               "Invalid amount: must be greater than 0")
        \o PushIf(FalsyNumber(orderParams.srcChainId) \/ FalsyNumber(orderParams.dstChainId),
                  "Invalid chain IDs: both source and destination required")
        \o PushIf(orderParams.srcChainId = orderParams.dstChainId,
                  "Invalid chain IDs: source and destination must be different")
        \o PushIf(~Falsy(orderParams.srcTokenAddress)
                    /\ ~isValidEthereumAddress(orderParams.srcTokenAddress),
                  "Invalid source token address format")
        \o PushIf(~Falsy(orderParams.dstTokenAddress)
                    /\ ~isValidEthereumAddress(orderParams.dstTokenAddress),
                  "Invalid destination token address format")
  IN  [isValid |-> Len(errors) = 0, errors |-> errors]

\* the order parameters tried: a token address absent, well-formed, or not an address
OrderParamsInputs ==
  [amount : {"1000000", "0", "-5", "abc", Undefined},
   srcChainId : {0, 1, 137},
   dstChainId : {0, 1, 8453},
   srcTokenAddress : {Undefined, "0xbb", "0xnot-an-address"},
   dstTokenAddress : {Undefined, "0xAA", "0xnot-an-address"}]

\* one call validateOrderParams(orderParams)
ValidateParamsCall(orderParams) ==
  /\ fcall' = [op |-> "validateOrderParams", orderParams |-> orderParams,
               isValid |-> validateOrderParams(orderParams).isValid,
               errors |-> validateOrderParams(orderParams).errors]
  /\ onlyCall

NextParams == \E orderParams \in OrderParamsInputs : ValidateParamsCall(orderParams)

SpecParams == Init /\ [][NextParams]_vars

\* validateSignedOrderRequest(request) called at time t_now, `used` being the nonces
\* generateNonce has returned so far: the nonce of the message is generated in the call
validateSignedOrderRequest(request, t_now, used) ==
  LET paramValidation == validateOrderParams(request.orderParams)
      errors ==
        PushIf(~isValidEthereumAddress(request.userWalletAddress),
               "Invalid wallet address format")
        \o PushIf(~validateTimestamp(request.timestamp, t_now), "Invalid or expired timestamp")
        \o (IF ~paramValidation.isValid THEN paramValidation.errors ELSE <<>>)
      nonce == generateNonce(used)
      message == generateSwapMessage(request.userWalletAddress, request.orderParams,
                                     request.timestamp, nonce)
      signatureValid == verifyUserSignature(message, request.signature,
                                            request.userWalletAddress)
      all == IF Len(errors) = 0
               THEN errors \o PushIf(~signatureValid, "Invalid signature")
               ELSE errors
  IN  [isValid |-> Len(all) = 0, errors |-> all,
       nonce |-> IF Len(errors) = 0 THEN nonce ELSE NoNonce]

\* the signed requests tried: the signature is over the message of the request with a
\* nonce the server issued earlier or with one it never issued, or is malformed
SignedRequests(issued) ==
  UNION {{[userWalletAddress |-> w, orderParams |-> p, timestamp |-> t, signature |-> s] :
            s \in {Sign(k, generateSwapMessage(w, p, t, n)) :
                     k \in SigningAccounts, n \in issued \cup {ForgedNonce}}
                  \cup {Malformed}} :
         w \in {"0xAA", "0xnot-an-address"},
         p \in [amount : {"1000000", "0"}, srcChainId : {1}, dstChainId : {8453},
                srcTokenAddress : {Undefined}, dstTokenAddress : {Undefined}],
         t \in {StartTime, StartTime - maxAge}}

\* generateNonce() of the /prepare-order handler: the nonce of the message the client signs
NonceIssued ==
  /\ Cardinality(usedNonces) < MaxPrepare
  /\ usedNonces' = usedNonces \cup {generateNonce(usedNonces)}
  /\ UNCHANGED <<now, ticks, preparedOrders, timers, prep, lastPrepare, nSubmit,
                 lastSubmit, upstream, verified, hits, liveCalls,
                 storeLog, evicted, vt, mon, lastReveal, hl, fcall>>

\* one call validateSignedOrderRequest(request)
ValidateSignedCall(request) ==
  LET result == validateSignedOrderRequest(request, now, usedNonces) IN
  /\ Cardinality(usedNonces) < MaxPrepare + MaxSubmit
  /\ fcall' = [op |-> "validateSignedOrderRequest", request |-> request, at |-> now,
               issued |-> usedNonces, nonce |-> result.nonce,
               isValid |-> result.isValid, errors |-> result.errors]
  /\ usedNonces' = IF result.nonce = NoNonce THEN usedNonces
                   ELSE usedNonces \cup {result.nonce}
  /\ UNCHANGED <<now, ticks, preparedOrders, timers, prep, lastPrepare, nSubmit,
                 lastSubmit, upstream, verified, hits, liveCalls,
                 storeLog, evicted, vt, mon, lastReveal, hl>>

NextSigned ==
  \/ NonceIssued
  \/ \E request \in SignedRequests(usedNonces) : ValidateSignedCall(request)

SpecSigned == Init /\ [][NextSigned]_vars

(* --------------------------- processChartData --------------------------- *)
\* seconds per day: toISOString().split("T")[0] is the UTC day of the timestamp
SecondsPerDay == 24 * 60 * 60
\* the UTC day of a timestamp in seconds, as the number of the day
isoDate(timestamp) == timestamp \div SecondsPerDay

\* Math.ceil(a / b) for positive b
ceilDiv(a, b) == (a + b - 1) \div b
MathMin(values) == CHOOSE v \in values : \A w \in values : v <= w
MathMax(values) == CHOOSE v \in values : \A w \in values : v >= w

\* Array.prototype.sort((a, b) => a.timestamp - b.timestamp): stable, ascending
insertByTimestamp(sorted, point) ==
  LET before == Cardinality({i \in 1..Len(sorted) : sorted[i].timestamp <= point.timestamp})
  IN  SubSeq(sorted, 1, before) \o <<point>> \o SubSeq(sorted, before + 1, Len(sorted))

RECURSIVE sortByTimestamp(_)
sortByTimestamp(points) ==
  IF points = <<>> THEN <<>>
  ELSE insertByTimestamp(sortByTimestamp(SubSeq(points, 1, Len(points) - 1)),
                         points[Len(points)])

NoTimeRange == [start |-> "", end |-> ""]
EmptyChart(originalPoints) ==
  [dataPoints |-> <<>>,
   summary |-> [totalPoints |-> 0, originalPoints |-> originalPoints,
                timeRange |-> NoTimeRange,
                valueRange |-> [min |-> 0, max |-> 0, current |-> 0]]]

\* the points kept: all of them, or every step-th one and then the last one
sampled(validData, maxPoints) ==
  LET n == Len(validData)
      step == ceilDiv(n, maxPoints)
      \* for (let i = 0; i < validData.length; i += step)
      taken == ceilDiv(n, step)
      picked == [k \in 1..taken |-> validData[1 + (k - 1) * step]]
  IN  IF n <= maxPoints THEN validData
      ELSE IF 1 + (taken - 1) * step # n THEN Append(picked, validData[n])
      ELSE picked

processChartData(result, maxPoints) ==
  LET validData == sortByTimestamp(SelectSeq(result, LAMBDA point : point.value_usd > 0))
      values == {validData[i].value_usd : i \in 1..Len(validData)}
      processedData == sampled(validData, maxPoints)
      dataPoints == [i \in 1..Len(processedData) |->
                       [timestamp |-> processedData[i].timestamp,
                        value_usd |-> processedData[i].value_usd,
                        date |-> isoDate(processedData[i].timestamp)]]
  IN  IF Len(result) = 0 THEN EmptyChart(0)
      ELSE IF Len(validData) = 0 THEN EmptyChart(Len(result))
      ELSE [dataPoints |-> dataPoints,
            summary |-> [totalPoints |-> Len(dataPoints),
                         originalPoints |-> Len(result),
                         timeRange |-> [start |-> isoDate(validData[1].timestamp),
                                        end |-> isoDate(validData[Len(validData)].timestamp)],
                         valueRange |-> [min |-> MathMin(values), max |-> MathMax(values),
                                         current |-> validData[Len(validData)].value_usd]]]

\* the points of a portfolio series: a value of 0 is a point to be dropped
ChartPoints == [timestamp : {1, 2, SecondsPerDay}, value_usd : {0, 5}]
ChartSeries == UNION {[1..n -> ChartPoints] : n \in 0..MaxSeries}

\* processChartData(rawData, maxPoints) has been called with a series and a maxPoints >= 1
InitChart ==
  /\ now = StartTime
  /\ ticks = 0
  /\ preparedOrders = EmptyMap
  /\ timers = EmptyBag
  /\ usedNonces = {}
  /\ prep = [i \in PrepareIds |-> IdlePrepare]
  /\ lastPrepare = NoPrepare
  /\ nSubmit = 0
  /\ lastSubmit = NoSubmit
  /\ upstream = EmptyBag
  /\ verified = {}
  /\ hits = EmptyBag
  /\ liveCalls = {}
  /\ storeLog = {}
  /\ evicted = {}
  /\ vt = NoEvaluation
  /\ mon = [m \in MonitorIds |-> IdleMonitor]
  /\ lastReveal = NoReveal
  /\ hl = NoHashLock
  /\ \E result \in ChartSeries, maxPoints \in 1..MaxChartPoints :
       fcall = [op |-> "processChartData", pc |-> "called", result |-> result,
                maxPoints |-> maxPoints, out |-> EmptyChart(0)]

\* the call returns
ChartReturns ==
  /\ fcall.op = "processChartData"
  /\ fcall.pc = "called"
  /\ fcall' = [fcall EXCEPT !.pc = "returned",
                            !.out = processChartData(fcall.result, fcall.maxPoints)]
  /\ onlyCall

NextChart == ChartReturns

SpecChart == InitChart /\ [][NextChart]_vars

(* ------------------------------ claims -------------------------------- *)
SubmitCall(order) == [op |-> "submitOrder", via |-> "submit-signed-order", order |-> order]
StoredHashes == {k.hash : k \in storeLog}
\* the latest step handled a /submit-signed-order request carrying all required fields
Handled == lastSubmit.id # 0 /\ ~requiredFieldMissing(lastSubmit.body)
\* the order parameters the record of the latest request was prepared with
StoredParams == lastSubmit.preparedOrder.preparationData
\* the latest request's wallet is the record's, letter case ignored
SameWallet ==
  toLowerCase(lastSubmit.preparedOrder.userWalletAddress)
    = toLowerCase(lastSubmit.body.userWalletAddress)
\* the latest request's timestamp is within the window at the time of the request
InWindow ==
  /\ lastSubmit.body.timestamp > lastSubmit.at - 10 * Minute
  /\ lastSubmit.body.timestamp <= lastSubmit.at + Minute
\* the message the latest request's signature has to be over
MessageToVerify ==
  [Wallet |-> lastSubmit.body.userWalletAddress,
   Amount |-> StoredParams.amount,
   SourceChain |-> StoredParams.srcChainId,
   DestinationChain |-> StoredParams.dstChainId,
   SourceToken |-> OrDefault(StoredParams.srcTokenAddress),
   DestinationToken |-> OrDefault(StoredParams.dstTokenAddress),
   Timestamp |-> lastSubmit.body.timestamp,
   Nonce |-> lastSubmit.body.nonce]
\* the latest request's signature is the wallet's own over that message
GoodSignature ==
  /\ lastSubmit.body.signature.kind = "signed"
  /\ lastSubmit.body.signature.message = MessageToVerify
  /\ toLowerCase(lastSubmit.body.signature.signer)
       = toLowerCase(lastSubmit.body.userWalletAddress)

\* C1: no order is submitted to the network before a submit-signed-order request for
\* its preparation has passed signature verification, and handling a prepare-order
\* request makes no sdk.submitOrder call.
C1_NoSubmissionBeforeVerification ==
  \A call \in BagToSet(upstream) :
    (call.op = "submitOrder" /\ call.via \in {"prepare-order", "submit-signed-order"})
      => call.via # "prepare-order" /\ call.order \in verified

\* C2: per preparation hash at most one submit-signed-order request obtains the record
\* and at most one reaches the upstream submission (only a request that obtained the
\* record gets to the call); every request (with all fields) that does not obtain the
\* record is answered 404 "Prepared order not found or expired".
C2_AtMostOneSubmit ==
  /\ \A h \in BagToSet(hits) : CopiesIn(h, hits) <= 1
  /\ \A k \in storeLog : CopiesIn(SubmitCall(k.order), upstream) <= 1
  /\ Handled /\ lastSubmit.reached => lastSubmit.consumed
  /\ Handled /\ ~lastSubmit.consumed =>
       /\ lastSubmit.resp = Response(404, "Prepared order not found or expired")
       /\ ~lastSubmit.reached
  /\ Handled /\ BagIn(lastSubmit.body.preparationHash, hits) /\ ~lastSubmit.consumed =>
       lastSubmit.resp.status = 404

\* a second request for a hash whose record an earlier request obtained and took
\* through the checks to the submission call
C2_Witness ==
  /\ Handled /\ ~lastSubmit.consumed
  /\ BagIn(lastSubmit.body.preparationHash, hits)
  /\ \E k \in storeLog : /\ k.hash = lastSubmit.body.preparationHash
                         /\ k.order \in verified
  /\ lastSubmit.resp.status = 404

\* C3: a request reaches the upstream submission only with a signature whose recovered
\* signer is the request's wallet (case ignored); with a bad signature, after the
\* earlier checks passed, it is answered 403 "Invalid signature" and submits nothing.
C3_SignatureGate ==
  Handled =>
    /\ lastSubmit.reached => GoodSignature
    /\ lastSubmit.consumed /\ SameWallet /\ InWindow /\ ~GoodSignature =>
         /\ lastSubmit.resp = Response(403, "Invalid signature")
         /\ ~lastSubmit.reached

\* another account's signature over the right message, everything else in order
C3_Witness ==
  /\ Handled /\ lastSubmit.consumed /\ SameWallet /\ InWindow
  /\ lastSubmit.body.signature.kind = "signed"
  /\ lastSubmit.body.signature.message = MessageToVerify
  /\ lastSubmit.body.signature.signer = "0xbb"
  /\ lastSubmit.resp.error = "Invalid signature"

\* C4: a request whose wallet differs (case ignored) from the wallet of the record is
\* answered 403 "User wallet address mismatch", whatever its timestamp and signature,
\* and does not reach the upstream submission.
C4_WalletMismatch ==
  Handled /\ lastSubmit.consumed /\ ~SameWallet =>
    /\ lastSubmit.resp = Response(403, "User wallet address mismatch")
    /\ ~lastSubmit.reached

\* a mismatching wallet with its own valid signature and a timestamp out of the window
C4_Witness ==
  /\ Handled /\ lastSubmit.consumed /\ ~SameWallet
  /\ ~InWindow /\ GoodSignature
  /\ lastSubmit.resp.error = "User wallet address mismatch"

\* C5: a request reaches the upstream submission only if less than 10 minutes have
\* passed since the timestamp stored in the record at prepare time.
C5_WindowFromStoredTimestamp ==
  Handled /\ lastSubmit.reached =>
    lastSubmit.at - lastSubmit.preparedOrder.timestamp < 10 * Minute

\* C6: the message the signature is verified against carries the order parameters
\* stored at prepare time: an accepted signature is over amount, chains and tokens of
\* the record, not over values of the request.
C6_MessageFromStoredParams ==
  Handled /\ lastSubmit.reached =>
    LET m == lastSubmit.body.signature.message
        d == lastSubmit.preparedOrder.preparationData
    IN  /\ m.Amount = d.amount
        /\ m.SourceChain = d.srcChainId
        /\ m.DestinationChain = d.dstChainId
        /\ m.SourceToken = OrDefault(d.srcTokenAddress)
        /\ m.DestinationToken = OrDefault(d.dstTokenAddress)

\* an accepted request whose body carries other order parameters than the record
C6_Witness ==
  /\ Handled /\ lastSubmit.reached
  /\ lastSubmit.body.orderParams.amount # lastSubmit.preparedOrder.preparationData.amount
  /\ lastSubmit.body.signature.message.Amount
       = lastSubmit.preparedOrder.preparationData.amount

\* C7: of the consumePreparedOrder calls on one hash made by interleaved handlers,
\* exactly one gets the record: never two, and one whenever a call was made while the
\* record was stored and its timer had not fired.
C7_ExactlyOneConsumer ==
  \A h \in liveCalls \cup BagToSet(hits) :
    /\ CopiesIn(h, hits) <= 1
    /\ h \in liveCalls => CopiesIn(h, hits) = 1

\* a second call on the hash, after the call that got the record and while the
\* deletion timer of the record is still pending
C7_Witness ==
  /\ Handled /\ ~lastSubmit.consumed
  /\ lastSubmit.body.preparationHash \in liveCalls
  /\ BagIn(lastSubmit.body.preparationHash, hits)
  /\ \E t \in BagToSet(timers) : t.hash = lastSubmit.body.preparationHash

\* C8: consumePreparedOrder on a hash never stored or already consumed returns null
\* and leaves the store as it was; after a call that returned the record the hash is
\* not in the store.
C8_ConsumeIdempotent ==
  [][ (lastSubmit'.id # 0 /\ ~requiredFieldMissing(lastSubmit'.body)) =>
        LET h == lastSubmit'.body.preparationHash
        IN  /\ (h \notin StoredHashes \/ BagIn(h, hits)) =>
                 ~lastSubmit'.consumed /\ preparedOrders' = preparedOrders
            /\ lastSubmit'.consumed => h \notin DOMAIN preparedOrders' ]_vars

\* a call on a hash never stored, made while another record is in the store
C8_Witness ==
  /\ Handled /\ ~lastSubmit.consumed
  /\ lastSubmit.body.preparationHash \notin StoredHashes
  /\ DOMAIN preparedOrders # {}

\* C9: a record stored at T is not obtained later than T + 15 minutes, and once that
\* time has passed the deletion has run, consumed or not.
C9_TimeToLive ==
  \A k \in storeLog :
    /\ Handled /\ lastSubmit.consumed /\ lastSubmit.body.preparationHash = k.hash =>
         lastSubmit.at <= k.at + 15 * Minute
    /\ now > k.at + 15 * Minute =>
         k.hash \notin DOMAIN preparedOrders /\ k.hash \in evicted

\* a request later than T + 15 minutes for a record no request ever obtained
C9_Witness ==
  /\ Handled /\ ~lastSubmit.consumed
  /\ \E k \in storeLog : /\ k.hash = lastSubmit.body.preparationHash
                         /\ lastSubmit.at > k.at + 15 * Minute
                         /\ ~BagIn(k.hash, hits)

\* C10: validateTimestamp(t) is true exactly when now - 10min < t <= now + 1min: false
\* at now - 11min and now - 10min, true at now - 5min and now + 1min, false at now + 2min.
C10_TimestampWindow ==
  vt.called =>
    /\ vt.result <=> (vt.t_now - 10 * Minute < vt.timestamp /\ vt.timestamp <= vt.t_now + Minute)
    /\ vt.timestamp = vt.t_now - 11 * Minute => ~vt.result
    /\ vt.timestamp = vt.t_now - 10 * Minute => ~vt.result
    /\ vt.timestamp = vt.t_now - 5 * Minute => vt.result
    /\ vt.timestamp = vt.t_now + Minute => vt.result
    /\ vt.timestamp = vt.t_now + 2 * Minute => ~vt.result

\* the lower bound itself is rejected
C10_Witness ==
  vt.called /\ vt.timestamp = vt.t_now - 10 * Minute /\ ~vt.result

\* C11: a prepare-order request with srcChainId equal to dstChainId is answered with a
\* bad-input error (a 4xx status, as the other input errors of the route, not the 500
\* of upstream and internal failures) and adds no record to the store.
C11_SameChainIsValidationError ==
  (/\ lastPrepare.id # 0 /\ lastPrepare.route = "prepare-order"
   /\ lastPrepare.body.srcChainId = lastPrepare.body.dstChainId) =>
    /\ lastPrepare.resp.status \in 400..499
    /\ lastPrepare.resp.error # FailedToCreate(UpstreamFailure)
    /\ ~lastPrepare.stored
    /\ \A k \in storeLog : k.order # lastPrepare.id

\* the run of order m has ended, by a return or by an Error
Ended(m) == mon[m].pc \in {"returned", "failed"}

\* C12: sdk.submitSecret is called with secrets[idx] only for an index idx that the
\* ready-fills answer of the same iteration listed for the order of the run.
C12_NoSpeculativeReveal ==
  lastReveal.mon # 0 =>
    LET r == mon[lastReveal.mon]
    IN  /\ lastReveal.fills = r.fills
        /\ \E j \in DOMAIN r.fills : r.fills[j] = lastReveal.idx
        /\ lastReveal.secret = r.secrets[lastReveal.idx + 1]
        /\ lastReveal.hash = r.hash

\* the secret of index 1 is submitted in an iteration whose answer listed only index 1
C12_Witness ==
  /\ lastReveal.mon # 0
  /\ lastReveal.fills = <<1>>
  /\ lastReveal.idx = 1
  /\ mon[lastReveal.mon].polls = 2

\* C13: when monitorOrderStatus returns, the status it returns is executed, expired or
\* refunded, whatever the network answers to the status fetches.
C13_ReturnsTerminalStatus ==
  \A m \in MonitorIds : mon[m].pc = "returned" => mon[m].result \in {"executed", "expired", "refunded"}

\* C14 as stated: over a run, ended by a return or by an Error, secrets[i] was submitted
\* as many times as iterations listed index i.
C14_RevealsEqualReports ==
  \A m \in MonitorIds : Ended(m) =>
    \A i \in FillIndexes : mon[m].revealed[i] = mon[m].reported[i]

\* C14 amended: over a run that returned, secrets[i] was submitted as many times as
\* iterations listed index i (each list naming an index at most once), so once for
\* index 0 when one iteration listed it and the status then was executed; over a run
\* an Error ended, never more often.
C14_RevealsEqualReportsOnReturn ==
  \A m \in MonitorIds :
    /\ mon[m].pc = "returned" =>
         /\ \A i \in FillIndexes : mon[m].revealed[i] = mon[m].reported[i]
         /\ mon[m].polls = 1 /\ mon[m].reported[0] = 1 /\ mon[m].status = "executed"
              /\ mon[m].result = "executed" => mon[m].revealed[0] = 1
    /\ mon[m].pc = "failed" =>
         \A i \in FillIndexes : mon[m].revealed[i] <= mon[m].reported[i]

\* fills [{idx: 0}] once, then status executed: one submission, executed is returned
C14_Witness ==
  \E m \in MonitorIds :
    /\ mon[m].pc = "returned" /\ mon[m].polls = 1
    /\ mon[m].reported = [i \in FillIndexes |-> IF i = 0 THEN 1 ELSE 0]
    /\ mon[m].revealed[0] = 1 /\ mon[m].revealed[1] = 0
    /\ mon[m].result = "executed"

\* C16: a failing call of the network ends the run with an Error for the caller; the
\* ended run makes no further call: no poll, no secret, no retry.
C16_FailureEndsRun ==
  [][ \A m \in MonitorIds :
        /\ mon'[m].failedCall # None =>
             /\ mon'[m].pc = "failed"
             /\ mon'[m].error \in
                  {FailedToMonitor(thrownInMonitor(mon'[m].failedCall, message)) :
                     message \in FailureCauses(mon'[m].failedCall)}
        /\ mon[m].pc = "failed" => mon'[m] = mon[m] /\ lastReveal'.mon # m ]_vars

\* the submission of the first of two secrets failed: the second was not submitted
C16_Witness ==
  \E m \in MonitorIds :
    /\ mon[m].pc = "failed" /\ mon[m].failedCall = "secret"
    /\ mon[m].reported[0] = 1 /\ mon[m].reported[1] = 1
    /\ mon[m].revealed[0] + mon[m].revealed[1] = 1

\* C17: with several orders monitored at once, a run submits only secrets of its own
\* order together with its own order hash, and a step of one run leaves the other
\* runs as they were.
C17_MonitorsIndependent ==
  [][ /\ lastReveal'.mon # 0 =>
           /\ lastReveal'.hash = lastReveal'.mon
           /\ lastReveal'.secret.order = lastReveal'.mon
           /\ \E j \in DOMAIN mon[lastReveal'.mon].secrets :
                mon[lastReveal'.mon].secrets[j] = lastReveal'.secret
      /\ \A m1, m2 \in MonitorIds :
           m1 # m2 /\ mon'[m1] # mon[m1] => mon'[m2] = mon[m2] ]_vars

\* run 2 submits a secret while run 1 is between two submissions of its own
C17_Witness ==
  /\ lastReveal.mon = 2
  /\ mon[1].pc = "secret" /\ mon[1].k = 1 /\ Len(mon[1].fills) = 2
  /\ mon[2].pc = "secret"

\* C15: when no call fails and the network comes to report a terminal status and keeps
\* reporting it, a run of monitorOrderStatus that was started returns.
C15_MonitorReturns ==
  \A m \in MonitorIds : (mon[m].pc # "idle") ~> (mon[m].pc = "returned")

\* a run that returned after a second iteration of the loop
C15_Witness ==
  \E m \in MonitorIds :
    mon[m].pc = "returned" /\ mon[m].polls = 2 /\ mon[m].result = mon[m].status

\* C18: for a quote of N secrets there are N secrets and N secret hashes, the i-th hash
\* being the hash of the i-th secret; the lock is the single-fill lock of secrets[0]
\* for N = 1 and the multiple-fill lock over the N leaves, in order, for N > 1.
C18_HashLock ==
  hl.called =>
    /\ hl.n >= 1
    /\ Len(hl.secrets) = hl.n /\ Len(hl.secretHashes) = hl.n
    /\ \A i \in 1..hl.n : hl.secretHashes[i] = [hashOf |-> hl.secrets[i]]
    /\ hl.n = 1 => hl.hashLock = [kind |-> "single", hash |-> [hashOf |-> hl.secrets[1]]]
    /\ hl.n > 1 =>
         /\ hl.hashLock.kind = "multiple"
         /\ Len(hl.hashLock.leaves) = hl.n
         /\ \A i \in 1..hl.n :
              hl.hashLock.leaves[i] = [idx |-> i - 1, secretHash |-> [hashOf |-> hl.secrets[i]]]

\* three secrets: a lock over three leaves
C18_Witness ==
  /\ hl.called /\ hl.n = 3
  /\ hl.secrets = <<"0x03", "0x01", "0x02">>
  /\ hl.hashLock.kind = "multiple" /\ Len(hl.hashLock.leaves) = 3

PrepareSubmitCall(order) == [op |-> "submitOrder", via |-> "prepare-order", order |-> order]
LegacySubmitCall(order) == [op |-> "submitOrder", via |-> "cross-chain", order |-> order]

\* C19: an order is submitted to the network at most once over its lifetime, the
\* prepare phase, the submit phase and the failure paths taken together.
C19_SubmittedAtMostOnce ==
  \A id \in PrepareIds :
    CopiesIn(PrepareSubmitCall(id), upstream) + CopiesIn(SubmitCall(id), upstream)
      + CopiesIn(LegacySubmitCall(id), upstream) <= 1

\* an order submitted while /prepare-order was handled, whose /submit-signed-order
\* request then passed every check and was answered: still one submission
C19_Witness ==
  /\ Handled /\ lastSubmit.reached
  /\ lastSubmit.resp.status = 500
  /\ CopiesIn(PrepareSubmitCall(lastSubmit.preparedOrder.orderHash), upstream) = 1
  /\ CopiesIn(SubmitCall(lastSubmit.preparedOrder.orderHash), upstream) = 0

\* the values in a tuple
Values(seq) == {seq[i] : i \in DOMAIN seq}
\* the secrets of the record k of a prepared order
SecretsOf(k) == Values(k.data.preparationData.secrets)

\* C20: a response that carries secrets of a prepared order is the 200 response of a
\* submit-signed-order request that got the record of that order, matched the wallet,
\* passed the timestamp and signature checks and whose upstream submission returned,
\* and it carries the secrets of that order alone; the response of /prepare-order
\* and every response other than 200 carry no secrets at all, and no response of
\* /cross-chain carries a secret of a prepared order.
C20_SecretsOnlyAfterSubmission ==
  /\ lastPrepare.route = "prepare-order" \/ lastPrepare.resp.status # 200
       => lastPrepare.resp.secrets = <<>>
  /\ \A k \in storeLog : Values(lastPrepare.resp.secrets) \cap SecretsOf(k) = {}
  /\ lastSubmit.resp.status # 200 => lastSubmit.resp.secrets = <<>>
  /\ \A k \in storeLog :
       Values(lastSubmit.resp.secrets) \cap SecretsOf(k) # {} =>
         /\ lastSubmit.resp.status = 200
         /\ lastSubmit.body.preparationHash = k.hash
         /\ lastSubmit.consumed /\ lastSubmit.preparedOrder = k.data
         /\ SameWallet /\ InWindow /\ GoodSignature
         /\ lastSubmit.reached
         /\ BagIn(SubmitCall(k.order), upstream)
         /\ Values(lastSubmit.resp.secrets) = SecretsOf(k)

\* a /submit-signed-order request for the order request 1 prepared, two secrets in its
\* record, passed every check and was answered 500: the response carries no secret,
\* while the record of the earlier order, two secrets in it too, is still stored
C20_Witness ==
  /\ Handled /\ lastSubmit.reached
  /\ SameWallet /\ InWindow /\ GoodSignature
  /\ lastSubmit.resp.status = 500
  /\ lastSubmit.resp.secrets = <<>>
  /\ lastSubmit.preparedOrder.orderHash = 1
  /\ Len(lastSubmit.preparedOrder.preparationData.secrets) = 2
  /\ \E k \in storeLog :
       /\ k.order = EarlierOrder
       /\ k.hash \in DOMAIN preparedOrders
       /\ Len(preparedOrders[k.hash].preparationData.secrets) = 2

\* C21: the preparation hash is taken over the wallet, every field of orderParams,
\* the timestamp and the nonce: two preparations have the same hash preimage exactly
\* when they agree in all of these values, a single field of orderParams included
C21_HashSeparatesPreparations ==
  fcall.op = "createOrderPreparationHash" =>
    ((fcall.a = fcall.b) <=> (fcall.hashA = fcall.hashB))

\* C22: every record ever stored has different source and destination chains and an
\* amount that parses to a positive number, and a /prepare-order request that violates
\* either condition stores nothing
C22_StoredRecordsValid ==
  /\ \A k \in storeLog :
       /\ k.data.preparationData.srcChainId # k.data.preparationData.dstChainId
       /\ Greater(parseFloat(k.data.preparationData.amount), 0)
  /\ (/\ lastPrepare.id # 0 /\ lastPrepare.route = "prepare-order"
      /\ \/ lastPrepare.body.srcChainId = lastPrepare.body.dstChainId
         \/ ~Greater(parseFloat(lastPrepare.body.amount), 0))
     => ~lastPrepare.stored

\* the latest call is of getQuote or createFusionOrder
QuoteCaller == fcall.op \in {"getQuote", "createFusionOrder"}
\* the calls of sdk.getQuote the latest call has made
QuoteCalls == Cardinality({i \in DOMAIN fcall.sdkCalls : fcall.sdkCalls[i] = "getQuote"})

\* the chains of the arguments tried that have a USDC address in DEFAULT_TOKENS
\* (createOrder.ts 199-220), and that address
ChainsWithDefault == {1, 8453}
UsdcOn(chainId) ==
  IF chainId = 1 THEN "0xA0b86991c6218b36c1d19D4a2e9Eb0cE3606eB48"
  ELSE "0x833589fCD6eDb6E08f4c7C32D4f71b54bdA02913"

\* the Error a call fails with when it cannot resolve a token: the text of the throw
\* statement behind the prefix of the function's catch block, written out for the
\* functions, the two tokens and the chains without a default that are tried
UnresolvedTokenErrors ==
  {[fn |-> "getQuote", token |-> "source", chainId |-> 10, error |->
      "Failed to get quote: Source token address is required for chain ID 10. No default token available."],
   [fn |-> "getQuote", token |-> "source", chainId |-> 137, error |->
      "Failed to get quote: Source token address is required for chain ID 137. No default token available."],
   [fn |-> "getQuote", token |-> "destination", chainId |-> 10, error |->
      "Failed to get quote: Destination token address is required for chain ID 10. No default token available."],
   [fn |-> "getQuote", token |-> "destination", chainId |-> 137, error |->
      "Failed to get quote: Destination token address is required for chain ID 137. No default token available."],
   [fn |-> "createFusionOrder", token |-> "source", chainId |-> 10, error |->
      "Failed to create fusion order: Source token address is required for chain ID 10. No default token available."],
   [fn |-> "createFusionOrder", token |-> "source", chainId |-> 137, error |->
      "Failed to create fusion order: Source token address is required for chain ID 137. No default token available."],
   [fn |-> "createFusionOrder", token |-> "destination", chainId |-> 10, error |->
      "Failed to create fusion order: Destination token address is required for chain ID 10. No default token available."],
   [fn |-> "createFusionOrder", token |-> "destination", chainId |-> 137, error |->
      "Failed to create fusion order: Destination token address is required for chain ID 137. No default token available."]}

\* C23: when a token address is omitted, getQuote and createFusionOrder quote with the
\* USDC default of the corresponding chain (the source chain for the source token, the
\* destination chain for the destination token) and with a given address as it is;
\* when the chain of an omitted token has no default the call fails with the
\* unresolved-token error, which names the function and that chain, and no upstream
\* quote call was made
C23_DefaultTokens ==
  QuoteCaller =>
    LET p == fcall.args
        chainsGiven == p.srcChainId # 0 /\ p.dstChainId # 0 /\ p.srcChainId # p.dstChainId
        srcOmitted == p.srcTokenAddress = Undefined
        dstOmitted == p.dstTokenAddress = Undefined
        srcUnresolved == srcOmitted /\ p.srcChainId \notin ChainsWithDefault
        dstUnresolved == dstOmitted /\ p.dstChainId \notin ChainsWithDefault
    IN  /\ (QuoteCalls > 0 /\ srcOmitted)
             => /\ p.srcChainId \in ChainsWithDefault
                /\ fcall.payload.srcTokenAddress = UsdcOn(p.srcChainId)
        /\ (QuoteCalls > 0 /\ dstOmitted)
             => /\ p.dstChainId \in ChainsWithDefault
                /\ fcall.payload.dstTokenAddress = UsdcOn(p.dstChainId)
        /\ (QuoteCalls > 0 /\ ~srcOmitted)
             => fcall.payload.srcTokenAddress = p.srcTokenAddress
        /\ (QuoteCalls > 0 /\ ~dstOmitted)
             => fcall.payload.dstTokenAddress = p.dstTokenAddress
        /\ (chainsGiven /\ srcUnresolved)
             => /\ fcall.pc = "failed"
                /\ [fn |-> fcall.op, token |-> "source", chainId |-> p.srcChainId,
                    error |-> fcall.error] \in UnresolvedTokenErrors
                /\ fcall.sdkCalls = <<>>
        /\ (chainsGiven /\ ~srcUnresolved /\ dstUnresolved)
             => /\ fcall.pc = "failed"
                /\ [fn |-> fcall.op, token |-> "destination", chainId |-> p.dstChainId,
                    error |-> fcall.error] \in UnresolvedTokenErrors
                /\ fcall.sdkCalls = <<>>

\* createFusionOrder, called from chain 1 to chain 10 without token addresses, has
\* failed on the destination token of chain 10 before any call of the SDK, the
\* default of chain 1 notwithstanding
C23_Witness ==
  /\ fcall.op = "createFusionOrder"
  /\ fcall.args.srcChainId = 1 /\ fcall.args.dstChainId = 10
  /\ fcall.args.srcTokenAddress = Undefined /\ fcall.args.dstTokenAddress = Undefined
  /\ fcall.pc = "failed"
  /\ fcall.sdkCalls = <<>>
  /\ fcall.error = "Failed to create fusion order: Destination token address is required for chain ID 10. No default token available."

\* C24: verifyUserSignature returns true exactly when the signature yields a signer
\* and that signer is the expected wallet, letter case ignored: only a signature the
\* expected wallet's key made over this very message is accepted, a malformed
\* signature gives false, and a message signed by w verifies against w in any case
C24_VerifyExactly ==
  fcall.op = "verifyUserSignature" =>
    LET s == fcall.signature
        byExpected == /\ s # Malformed
                      /\ s.message = fcall.message
                      /\ toLowerCase(s.signer) = toLowerCase(fcall.expectedWalletAddress)
    IN  /\ fcall.result \in BOOLEAN
        /\ fcall.result <=> byExpected
        /\ s = Malformed => ~fcall.result
        /\ \A w \in SigningAccounts :
             (s = Sign(w, fcall.message)
                /\ toLowerCase(fcall.expectedWalletAddress) = toLowerCase(w))
               => fcall.result

\* the signature of 0xAA over the message verified against the lower-case spelling
C24_Witness ==
  /\ fcall.op = "verifyUserSignature"
  /\ fcall.signature = Sign("0xAA", fcall.message)
  /\ fcall.expectedWalletAddress = "0xaa"
  /\ fcall.result

\* C25: a /submit-signed-order request that found the record, matched the wallet and
\* passed the timestamp and signature checks hands the order, quoteId, source chain and
\* secret hashes of the stored record to the upstream submission, and the response to
\* its success carries the orderHash stored at prepare time and the status "submitted"
C25_SubmitsWhatWasStored ==
  Handled /\ lastSubmit.reached =>
    \E k \in storeLog :
      /\ k.hash = lastSubmit.body.preparationHash
      /\ lastSubmit.args.order = k.data.preparationData.order
      /\ lastSubmit.args.quoteId = k.data.preparationData.quoteId
      /\ lastSubmit.args.srcChainId = k.data.preparationData.srcChainId
      /\ lastSubmit.args.secretHashes = k.data.preparationData.secretHashes
      /\ BagIn(SubmitCall(k.order), upstream)
      /\ lastSubmit.resp.status = 200 =>
           /\ lastSubmit.data.orderHash = k.data.orderHash
           /\ lastSubmit.data.status = "submitted"

\* the latest request is to a deprecated endpoint of the secure server: a path under
\* /api/swap, or /cross-chain*, /prepare-order*, /submit-signed-order* of the secure router
ToDeprecatedEndpoint ==
  /\ fcall.op = "request"
  /\ \/ MountedAt(<<"api", "swap">>, fcall.req.path)
     \/ \E e \in {"cross-chain", "prepare-order", "submit-signed-order"} :
          MountedAt(<<"api", "v2", "swap", e>>, fcall.req.path)
\* nothing was created, submitted, revealed or stored
NoCustodialEffect ==
  /\ fcall.sdkCalls = EmptyBag
  /\ upstream = EmptyBag
  /\ preparedOrders = EmptyMap
  /\ storeLog = {}
  /\ lastReveal = NoReveal
  /\ \A m \in MonitorIds : mon[m].pc = "idle"

\* C26: in the secure server every request to a deprecated endpoint is answered 410
\* and creates no order, submits nothing upstream, reveals no secret and leaves the
\* prepared-order store as it was
C26_EveryRequestGone ==
  ToDeprecatedEndpoint => (fcall.status = 410 /\ NoCustodialEffect)

\* C26, amended: a request to a deprecated endpoint has no custodial effect, and it is
\* answered 410 when it reaches the routes, that is when its method is not OPTIONS
\* and its body parses; an OPTIONS request is answered 200 by the CORS middleware and
\* an unparseable body 500 by the error handler
C26_GoneWhenRouted ==
  ToDeprecatedEndpoint =>
    /\ NoCustodialEffect
    /\ (fcall.req.method # "OPTIONS" /\ fcall.req.body # "malformed") => fcall.status = 410
    /\ (fcall.req.method = "OPTIONS" /\ fcall.req.body # "malformed") => fcall.status = 200
    /\ fcall.req.body = "malformed" => fcall.status = 500

\* a POST to /api/v2/swap/prepare-order with a JSON body was answered 410
C26_Witness ==
  /\ ToDeprecatedEndpoint
  /\ fcall.req = [method |-> "POST", path |-> <<"api", "v2", "swap", "prepare-order">>,
                  body |-> "json"]
  /\ fcall.status = 410
  /\ fcall.error = "DEPRECATED: Order preparation moved to frontend for security"

\* the in-loop status fetch of the run of order m has answered with a terminal status
LoopEnded(m) == mon[m].status \in {"executed", "expired", "refunded"}

\* C27: within a poll tick the ready-fills query comes first, then the secret of every
\* index of that tick's list, in the order listed, then the status fetch; once an
\* in-loop status fetch has answered with a terminal status the run reveals no further
\* secret and makes no further ready-fills query
C27_TickOrder ==
  [][\A m \in MonitorIds :
       \* the ready-fills query opens the run and follows the sleep, nothing else
       /\ (mon'[m].pc = "fills" /\ mon[m].pc # "fills") => mon[m].pc \in {"idle", "sleep"}
       \* a secret is submitted after the query or after the previous secret of the list
       /\ (mon'[m].pc = "secret" /\ mon'[m] # mon[m]) =>
             /\ \/ mon[m].pc = "fills" /\ mon'[m].k = 1
                \/ mon[m].pc = "secret" /\ mon'[m].k = mon[m].k + 1
                     /\ mon'[m].fills = mon[m].fills
             /\ lastReveal'.mon = m
             /\ lastReveal'.fills = mon'[m].fills
             /\ lastReveal'.idx = mon'[m].fills[mon'[m].k]
       \* the status fetch follows the last secret of the list, or an empty list
       /\ (mon'[m].pc = "status" /\ mon[m].pc # "status") =>
             \/ mon[m].pc = "fills" /\ mon'[m].reported = mon[m].reported
             \/ mon[m].pc = "secret" /\ mon[m].k = Len(mon[m].fills)
       \* after a terminal status: no query, no reveal
       /\ LoopEnded(m) =>
             /\ mon'[m].pc \notin {"fills", "secret", "status", "sleep"}
             /\ mon'[m].revealed = mon[m].revealed
             /\ mon'[m].polls = mon[m].polls
             /\ lastReveal'.mon # m]_vars

\* a run that revealed both secrets of one tick's list has left the loop on "expired"
C27_Witness ==
  /\ mon[1].pc = "final"
  /\ mon[1].status = "expired"
  /\ mon[1].revealed[0] = 1
  /\ mon[1].revealed[1] = 1
  /\ mon[1].polls = 1

\* C28: the loop has no bound on its poll ticks and no cancellation: a run that has
\* left the loop has seen a terminal in-loop status, a run that ended otherwise ended
\* on a failed call, a non-terminal status is followed by the sleep and the sleep by
\* the next poll tick, so that a run whose statuses stay non-terminal and whose calls
\* succeed is still polling at the last tick followed
C28_PollsUntilTerminalOrError ==
  /\ [](mon[1].pc \in {"final", "returned"} => LoopEnded(1))
  /\ [](mon[1].pc = "failed" => mon[1].failedCall \in {"fills", "secret", "status", "final"})
  /\ [](mon[1].pc \in {"idle", "fills", "secret", "status", "sleep", "final", "returned",
                       "failed"})
  /\ [][(mon[1].pc = "status" /\ mon'[1] # mon[1] /\ mon'[1].pc # "failed"
           /\ mon'[1].status \notin {"executed", "expired", "refunded"})
          => mon'[1].pc = "sleep"]_vars
  /\ [][(mon[1].pc = "sleep" /\ mon'[1] # mon[1])
          => (mon'[1].pc = "fills" /\ mon'[1].polls = mon[1].polls + 1)]_vars
  /\ (mon[1].pc # "idle")
       ~> \/ LoopEnded(1)
          \/ mon[1].pc = "failed"
          \/ mon[1].pc = "sleep" /\ mon[1].polls = MaxPolls

\* a run whose statuses were all "pending" sleeps after the last poll tick followed
C28_Witness ==
  /\ mon[1].pc = "sleep"
  /\ mon[1].polls = MaxPolls
  /\ mon[1].status = "pending"
  /\ mon[1].failedCall = None

\* createFusionOrder failed inside the latest createCompleteFusionOrder call
CreationFailed ==
  /\ fcall.op = "createCompleteFusionOrder"
  /\ ~fcall.created
  /\ fcall.error # None

\* C29: createCompleteFusionOrder starts monitoring only after the creation and the
\* upstream submission of the order have both succeeded; when createFusionOrder fails
\* at any step, monitorOrderStatus is never invoked, no secret is revealed and the
\* error of createFusionOrder is the error of the call
C29_MonitorOnlyAfterCreation ==
  /\ [](mon[1].pc # "idle" =>
          /\ fcall.op = "createCompleteFusionOrder"
          /\ fcall.created
          /\ fcall.sdkCalls = <<"getQuote", "createOrder", "submitOrder">>
          /\ fcall.pc \in {"monitor", "returned", "failed"}
          /\ mon[1].hash = fcall.hash)
  /\ [](CreationFailed =>
          /\ fcall.pc = "failed"
          /\ mon[1] = IdleMonitor
          /\ lastReveal = NoReveal
          /\ fcall.error \in {FailedToCreate(createFusionOrderRejects(fcall.args)),
                              FailedToCreate(UpstreamFailure)})
  /\ [][CreationFailed => (fcall' = fcall /\ mon' = mon /\ lastReveal' = lastReveal)]_vars

\* sdk.createOrder failed: the call has failed and the monitor was never started
C29_Witness ==
  /\ CreationFailed
  /\ fcall.sdkCalls = <<"getQuote", "createOrder">>
  /\ fcall.pc = "failed"
  /\ mon[1].pc = "idle"

\* C30: getQuote makes exactly one upstream quote call when its inputs pass validation
\* (both chain ids present and distinct, both tokens resolvable, the amount a positive
\* number) and none when any of these fails; a failure of the upstream call is
\* surfaced as one error and the call is not repeated
C30_OneQuoteCallWhenValid ==
  fcall.op = "getQuote" =>
    LET p == fcall.args
        valid == /\ ~FalsyNumber(p.srcChainId) /\ ~FalsyNumber(p.dstChainId)
                 /\ p.srcChainId # p.dstChainId
                 /\ ~Falsy(p.srcTokenAddress) \/ p.srcChainId \in DOMAIN DEFAULT_TOKENS
                 /\ ~Falsy(p.dstTokenAddress) \/ p.dstChainId \in DOMAIN DEFAULT_TOKENS
                 /\ Greater(parseFloat(p.amount), 0)
    IN  /\ valid => fcall.sdkCalls = <<"getQuote">>
        /\ ~valid => fcall.sdkCalls = <<>>
        /\ (fcall.pc = "failed" /\ fcall.sdkCalls # <<>>)
             => fcall.error = FailedToGetQuote(UpstreamFailure)

\* C31: a /prepare-order request adds exactly one record to the store in the step
\* that answers it with success, every record stored before staying as it was; a
\* request that fails at any step, and every step before the answer, leaves the
\* store unchanged
C31_OneRecordOnSuccess ==
  [][IF lastPrepare'.id # 0 /\ lastPrepare'.route = "prepare-order"
          /\ lastPrepare'.resp.status = 200
       THEN /\ \E h \in DOMAIN preparedOrders' :
                 /\ h \notin DOMAIN preparedOrders
                 /\ DOMAIN preparedOrders' = DOMAIN preparedOrders \cup {h}
                 /\ preparedOrders'[h].userWalletAddress = lastPrepare'.body.userWalletAddress
                 /\ preparedOrders'[h].orderHash = lastPrepare'.id
            /\ \A k \in DOMAIN preparedOrders : preparedOrders'[k] = preparedOrders[k]
            /\ Cardinality(storeLog') = Cardinality(storeLog) + 1
       ELSE /\ preparedOrders' = preparedOrders
            /\ timers' = timers
            /\ storeLog' = storeLog]_vars

\* a request was answered with success and the store holds its record and the earlier one
C31_Witness ==
  /\ lastPrepare.id = 1
  /\ lastPrepare.resp.status = 200
  /\ Cardinality(DOMAIN preparedOrders) = 2
  /\ EarlierHash \in DOMAIN preparedOrders

\* C32: every record stored by /prepare-order carries a defined order and a defined
\* quoteId, those sdk.createOrder returned, so that the submit phase hands the
\* created order, not an absent value, to the upstream submission
C32_StoredOrderDefined ==
  /\ \A k \in storeLog :
       /\ k.data.preparationData.order # Undefined
       /\ k.data.preparationData.quoteId # Undefined
  /\ lastSubmit.reached =>
       /\ lastSubmit.args.order # Undefined
       /\ lastSubmit.args.quoteId # Undefined

\* C33: a /submit-signed-order request that is rejected for missing fields, a wallet
\* mismatch, an invalid or expired timestamp or an invalid signature leaves the
\* record of its preparation hash in the store
C33_RejectionKeepsRecord ==
  [][(lastSubmit'.id # 0 /\ lastSubmit'.resp.status \in {400, 403})
       => preparedOrders' = preparedOrders]_vars

\* C34: whenever a /submit-signed-order request is accepted, its timestamp and nonce
\* are those stored in the record, so that the signature was verified over the
\* message the prepare phase issued for that preparation hash
C34_AcceptedOverIssuedMessage ==
  lastSubmit.reached =>
    /\ lastSubmit.body.timestamp = lastSubmit.preparedOrder.timestamp
    /\ lastSubmit.body.nonce = lastSubmit.preparedOrder.nonce
    /\ lastSubmit.body.signature.message =
         generateSwapMessage(lastSubmit.preparedOrder.userWalletAddress, StoredParams,
                             lastSubmit.preparedOrder.timestamp,
                             lastSubmit.preparedOrder.nonce)

\* C35 as stated: during one monitor run no secret index is submitted more than once,
\* whatever ready-fills lists the network returns on successive poll ticks
C35_EachSecretOnce ==
  \A m \in MonitorIds : \A i \in FillIndexes : mon[m].revealed[i] <= 1

\* C35, amended: during one monitor run a secret index is submitted at most once for
\* every poll tick whose ready-fills list named it, so at most as often as ticks have
\* begun; an index that a later tick lists again is submitted again
C35_OncePerListing ==
  \A m \in MonitorIds : \A i \in FillIndexes :
    /\ mon[m].revealed[i] <= mon[m].reported[i]
    /\ mon[m].reported[i] <= mon[m].polls

\* index 0 was listed on two ticks and its secret submitted twice
C35_Witness ==
  /\ mon[1].reported[0] = 2
  /\ mon[1].revealed[0] = 2
  /\ mon[1].polls = 2

\* C36: a record put under hash h at time T and not consumed since is what
\* consumePreparedOrder(h) returns at every time before T + 15 minutes, whatever
\* other store calls were made, earlier put and consume cycles on h included
C36_ReturnedWithinTtl ==
  (/\ fcall.op = "consumePreparedOrder"
   /\ fcall.before # NotHeld
   /\ fcall.at < fcall.before.at + ttl)
    => fcall.result = fcall.before.data

\* C37: validateOrderParams returns isValid = true exactly when the amount parses to
\* a positive number, both chain ids are present and differ, and every token address
\* given is well-formed; isValid is true exactly when the errors list is empty
C37_ValidExactly ==
  fcall.op = "validateOrderParams" =>
    LET p == fcall.orderParams
    IN  /\ fcall.isValid <=>
             /\ Greater(parseFloat(p.amount), 0)
             /\ ~FalsyNumber(p.srcChainId) /\ ~FalsyNumber(p.dstChainId)
             /\ p.srcChainId # p.dstChainId
             /\ Falsy(p.srcTokenAddress) \/ isValidEthereumAddress(p.srcTokenAddress)
             /\ Falsy(p.dstTokenAddress) \/ isValidEthereumAddress(p.dstTokenAddress)
        /\ fcall.isValid <=> fcall.errors = <<>>

\* C38: validateSignedOrderRequest returns isValid = true for a request whose wallet
\* address is well-formed, whose timestamp is inside the window, whose order parameters
\* are valid and whose signature is by that wallet over the authorization message
\* generated for the request with the nonce issued at prepare time
C38_LegitimateRequestValid ==
  LET r == fcall.request IN
  (/\ fcall.op = "validateSignedOrderRequest"
   /\ isValidEthereumAddress(r.userWalletAddress)
   /\ validateTimestamp(r.timestamp, fcall.at)
   /\ validateOrderParams(r.orderParams).isValid
   /\ \E n \in fcall.issued :
        r.signature = Sign(r.userWalletAddress,
                           generateSwapMessage(r.userWalletAddress, r.orderParams,
                                               r.timestamp, n)))
  => fcall.isValid

\* the latest valid point of a series: positive value, no valid point with a later timestamp
LatestValid(result, point) ==
  \E i \in 1..Len(result) :
    /\ result[i].value_usd > 0
    /\ result[i].timestamp = point.timestamp
    /\ result[i].value_usd = point.value_usd
    /\ \A j \in 1..Len(result) :
         result[j].value_usd > 0 => result[j].timestamp <= result[i].timestamp

\* C39: for every series and every maxPoints >= 1, processChartData returns at most
\* maxPoints points, each with value_usd > 0, in non-decreasing timestamp order, the
\* last of them being the latest valid point of the input, and summary.totalPoints is
\* the number of points returned
C39_ChartWithinMaxPoints ==
  (fcall.op = "processChartData" /\ fcall.pc = "returned") =>
    LET dataPoints == fcall.out.dataPoints IN
    /\ Len(dataPoints) <= fcall.maxPoints
    /\ \A i \in 1..Len(dataPoints) : dataPoints[i].value_usd > 0
    /\ \A i \in 1..Len(dataPoints) - 1 : dataPoints[i].timestamp <= dataPoints[i + 1].timestamp
    /\ (\E i \in 1..Len(fcall.result) : fcall.result[i].value_usd > 0) =>
         /\ Len(dataPoints) > 0
         /\ LatestValid(fcall.result, dataPoints[Len(dataPoints)])
    /\ fcall.out.summary.totalPoints = Len(dataPoints)

====
